---- MODULE Spec2Model ----
(***************************************************************************)
(* Turn orchestration of AI-GameMaster: the session store, the task queue, *)
(* the player-action task (process_game_action_task), the NPC-turn task    *)
(* (process_npc_turn_task) and the rules engine (gameplay_rules.py).       *)
(*                                                                         *)
(* Values produced by the language model (narration, intent, choices) and  *)
(* by random.randint are inputs chosen with \E from small sets.            *)
(***************************************************************************)
EXTENDS Integers, Sequences, FiniteSets, TLC

\* ------------------------------------------------------------------ bounds

\* client messages the websocket accepts in one behaviour
MaxMsgs == 7
\* tasks waiting in the broker queue at one time
MaxQueue == 2
\* tasks being executed by workers at one time
MaxInFlight == 2
\* characters the party may ask for in the model (the code accepts 1..4)
MaxParty == 2
\* an entity is attacked in the model only while its health is above -MaxOverkill
MaxOverkill == 1
\* NPC-turn tasks counted in one chain: the count stops there, the chain goes on
MaxChain == 5

\* --------------------------------------------------------------- constants

None == "None"

DefaultHealth == 100
DefaultStat == 10
DefaultDC == 12
StatBase == 10

\* character ids in creation order (uuid-derived in the code: all distinct)
PlayerIds == <<"p1", "p2", "p3">>

\* ------------------------------------------------------------- sequences

\* list.index(x): the first position of x, 0 when absent (the code raises ValueError)
IndexOf(s, x) ==
    IF \E i \in 1..Len(s) : s[i] = x
    THEN CHOOSE i \in 1..Len(s) : s[i] = x /\ \A j \in 1..(i - 1) : s[j] # x
    ELSE 0

\* Python's a // b for b > 0 (floor division)
FloorDiv(a, b) == a \div b

\* strings the code compares after str.lower() / builds with str.title()
Lower(n) ==
    CASE n = "Goblin" -> "goblin"
      [] n = "GOBLIN" -> "goblin"
      [] n = "Sword" -> "sword"
      [] n = "SWORD" -> "sword"
      [] n = "Rope" -> "rope"
      [] n = "Merchant" -> "merchant"
      [] n = "Dexterity" -> "dexterity"
      [] n = "Strength" -> "strength"
      [] n = "Wisdom" -> "wisdom"
      [] n = "Laser Gun" -> "laser gun"
      [] OTHER -> n

Title(n) ==
    CASE n = "sword" -> "Sword"
      [] n = "SWORD" -> "Sword"
      [] n = "rope" -> "Rope"
      [] n = "goblin" -> "Goblin"
      [] n = "GOBLIN" -> "Goblin"
      [] n = "laser gun" -> "Laser Gun"
      [] OTHER -> n

\* ------------------------------------------------------------ data model

\* PlayerCharacter as created by _handle_character_creation from the class
\* chosen: stats = base_stats of the class, health = max_health = 100,
\* level 1, no xp; the class's starting_currency is taken to be 0.
ClassBaseStats == [strength |-> DefaultStat, dexterity |-> DefaultStat]

NewPlayerCharacter(cid) ==
    [id |-> cid, health |-> DefaultHealth, max_health |-> DefaultHealth,
     level |-> 1, xp |-> 0, currency |-> 0, stats |-> ClassBaseStats,
     conditions |-> <<>>, inventory |-> <<"Sword">>]

\* SceneEntity: instance_id, name, is_hostile, health (stats default to {})
SceneEntity(eid, name, hostile, health) ==
    [id |-> eid, name |-> name, hostile |-> hostile, health |-> health]

\* PlayerIntent as returned by the classifier; required_dc = 0 stands for an
\* absent required_dc as well (the code reads it as `required_dc or 12`)
PlayerIntent(type, target, stat, dc) ==
    [type |-> type, target |-> target, stat |-> stat, dc |-> dc,
     item |-> None, acq |-> FALSE]

InventoryIntent(item, acq) ==
    [type |-> "MANAGE_INVENTORY", target |-> None, stat |-> None, dc |-> 0,
     item |-> item, acq |-> acq]

\* the session_id of the one session the client plays
SessionId == "s1"

\* GameState as created by crud.create_game_session. An Optional field is a
\* sequence of length 0 or 1 (pending) or the string None (ids, names).
InitialGameState ==
    [session_id |-> SessionId,
     game_phase |-> "NEW_GAME",
     players |-> <<>>,
     scene |-> <<>>,
     prev |-> None,
     cur |-> None,
     order |-> <<>>,
     pending |-> <<>>,
     wopts |-> <<>>,
     world |-> None,
     copts |-> 0,
     ntc |-> 0,
     created |-> 0,
     pcc |-> FALSE]

PlayerKeys(gs) == {gs.players[i].id : i \in 1..Len(gs.players)}

\* dict.get(id): the player's position in the dict, 0 when absent
PlayerPos(gs, cid) ==
    IF \E i \in 1..Len(gs.players) : gs.players[i].id = cid
    THEN CHOOSE i \in 1..Len(gs.players) : gs.players[i].id = cid
    ELSE 0

\* any(e.is_hostile and e.health > 0 for e in scene_context.entities)
RemainingHostiles(gs) ==
    \E i \in 1..Len(gs.scene) : gs.scene[i].hostile /\ gs.scene[i].health > 0

\* next((e for e in entities if e.name.lower() == target.lower()), None):
\* the position of the first entity of that name, 0 when there is none
TargetPos(gs, target) ==
    IF \E i \in 1..Len(gs.scene) : Lower(gs.scene[i].name) = Lower(target)
    THEN CHOOSE i \in 1..Len(gs.scene) :
            /\ Lower(gs.scene[i].name) = Lower(target)
            /\ \A j \in 1..(i - 1) : Lower(gs.scene[j].name) # Lower(target)
    ELSE 0

\* ----------------------------------------------------------- rules engine

\* a modifier that would round toward zero, as int((v - 10) / 2) does
StatModifierTruncated(v) ==
    IF v >= StatBase THEN FloorDiv(v - StatBase, 2) ELSE 0 - FloorDiv(StatBase - v, 2)

\* (v - 10) // 2
StatModifier(v) == FloorDiv(v - StatBase, 2)

\* dict.get(k, d)
StatGet(stats, k) == IF k \in DOMAIN stats THEN stats[k] ELSE DefaultStat

\* a descending sort that would put a later combatant before its equals
InsertDescTiesReversed(sorted, x) ==
    LET p == IF \E i \in 1..Len(sorted) : sorted[i].roll <= x.roll
             THEN CHOOSE i \in 1..Len(sorted) :
                     /\ sorted[i].roll <= x.roll
                     /\ \A j \in 1..(i - 1) : sorted[j].roll > x.roll
             ELSE Len(sorted) + 1
    IN SubSeq(sorted, 1, p - 1) \o <<x>> \o SubSeq(sorted, p, Len(sorted))

\* list.sort(key=roll, reverse=True): stable, descending
InsertDesc(sorted, x) ==
    LET p == IF \E i \in 1..Len(sorted) : sorted[i].roll < x.roll
             THEN CHOOSE i \in 1..Len(sorted) :
                     /\ sorted[i].roll < x.roll
                     /\ \A j \in 1..(i - 1) : sorted[j].roll >= x.roll
             ELSE Len(sorted) + 1
    IN SubSeq(sorted, 1, p - 1) \o <<x>> \o SubSeq(sorted, p, Len(sorted))

RECURSIVE SortDesc(_)
SortDesc(s) ==
    IF s = <<>> THEN <<>>
    ELSE InsertDesc(SortDesc(SubSeq(s, 1, Len(s) - 1)), s[Len(s)])

\* the combatant list of initiate_combat: players, then hostile entities
Combatants(gs) ==
    [i \in 1..Len(gs.players) |->
        [id |-> gs.players[i].id,
         dex |-> StatGet(gs.players[i].stats, "dexterity")]]
    \o
    LET hs == SelectSeq(gs.scene, LAMBDA e : e.hostile)
    IN [i \in 1..Len(hs) |-> [id |-> hs[i].id, dex |-> DefaultStat]]

\* initiate_combat; d20s[i] is the d20 rolled for the i-th combatant
initiate_combat(gs, d20s) ==
    LET cs == Combatants(gs)
        rolls == [i \in 1..Len(cs) |->
                    [id |-> cs[i].id, roll |-> d20s[i] + StatModifier(cs[i].dex)]]
        sorted == SortDesc(rolls)
        ord == [i \in 1..Len(sorted) |-> sorted[i].id]
    IN [gs EXCEPT !.game_phase = "IN_COMBAT",
                  !.order = ord,
                  !.cur = IF ord # <<>> THEN ord[1] ELSE gs.cur]

\* effects that would count "all" only where the stat itself is not named
RECURSIVE _apply_effects_either(_, _)
_apply_effects_either(conditions, stat) ==
    IF conditions = <<>> THEN 0
    ELSE LET m == conditions[1]
             a == IF stat # None /\ stat \in DOMAIN m /\ m[stat] # 0 THEN m[stat] ELSE 0
             b == IF a = 0 /\ "all" \in DOMAIN m /\ m["all"] # 0 THEN m["all"] ELSE 0
         IN a + b + _apply_effects_either(Tail(conditions), stat)

\* xp of one level (player.level * 1000) and max_health gained with it
LevelXp == 1000
LevelHealth == 10

\* a level-up that would go on while the xp meets the next threshold
RECURSIVE _check_for_level_up_repeated(_)
_check_for_level_up_repeated(player) ==
    IF player.xp >= player.level * LevelXp
    THEN _check_for_level_up_repeated(
            [player EXCEPT !.level = @ + 1,
                           !.max_health = @ + LevelHealth,
                           !.health = player.max_health + LevelHealth,
                           !.xp = @ - player.level * LevelXp])
    ELSE player

\* _check_for_level_up
_check_for_level_up(player) ==
    LET level_up_xp_threshold == player.level * LevelXp IN
    IF player.xp >= level_up_xp_threshold
    THEN [player EXCEPT !.level = @ + 1,
                        !.max_health = @ + LevelHealth,
                        !.health = player.max_health + LevelHealth,
                        !.xp = @ - level_up_xp_threshold]
    ELSE player

\* _apply_rewards; rewards is QuestRewards(xp, currency, items)
_apply_rewards(player, rewards) ==
    _check_for_level_up([player EXCEPT !.xp = @ + rewards.xp,
                                       !.currency = @ + rewards.currency,
                                       !.inventory = @ \o rewards.items])

\* _apply_effects: conditions are modifier dicts (stat name or "all" -> int)
RECURSIVE _apply_effects(_, _)
_apply_effects(conditions, stat) ==
    IF conditions = <<>> THEN 0
    ELSE LET m == conditions[1]
             a == IF stat # None /\ stat \in DOMAIN m /\ m[stat] # 0 THEN m[stat] ELSE 0
             b == IF "all" \in DOMAIN m /\ m["all"] # 0 THEN m["all"] ELSE 0
         IN a + b + _apply_effects(Tail(conditions), stat)

\* handle_skill_check_intent (phase 1): the d20 is rolled here, in secret
handle_skill_check_intent(intent, gs, actor, d20) ==
    LET dc == IF intent.dc # 0 THEN intent.dc ELSE DefaultDC
        stat == IF intent.stat # None /\ Lower(intent.stat) \in DOMAIN actor.stats
                THEN Lower(intent.stat) ELSE "dexterity"
        total_modifier == StatModifier(StatGet(actor.stats, stat))
                          + _apply_effects(actor.conditions, stat)
        pa == [actor |-> actor.id, dc |-> dc, modifier |-> total_modifier,
               stat_name |-> stat, dice_roll |-> d20,
               is_success |-> (d20 + total_modifier >= dc)]
    IN [gs |-> [gs EXCEPT !.game_phase = "AWAITING_DICE_ROLL_CONFIRMATION",
                          !.pending = <<pa>>],
        outcome |-> [kind |-> "challenge", stat_name |-> stat, dc |-> dc,
                     modifier |-> total_modifier]]

\* a handle_attack_intent that would strike whatever bears the name
handle_attack_intent_any(intent, gs, actor, d6) ==
    IF intent.target = None
    THEN [gs |-> gs, outcome |-> [kind |-> "no_target"]]
    ELSE LET i == TargetPos(gs, intent.target) IN
         IF i = 0 THEN [gs |-> gs, outcome |-> [kind |-> "no_such_target"]]
         ELSE LET damage == FloorDiv(StatGet(actor.stats, "strength"), 2) + d6
                  h == gs.scene[i].health - damage
              IN [gs |-> [gs EXCEPT !.scene[i].health = h],
                  outcome |-> IF h <= 0
                              THEN [kind |-> "defeated", target |-> gs.scene[i].id]
                              ELSE [kind |-> "hit", target |-> gs.scene[i].id,
                                    damage |-> damage, health |-> h]]

\* a handle_attack_intent whose blow would fall on every hostile entity
handle_attack_intent_sweeping(intent, gs, actor, d6) ==
    IF intent.target = None
    THEN [gs |-> gs, outcome |-> [kind |-> "no_target"]]
    ELSE LET i == TargetPos(gs, intent.target) IN
         IF i = 0 THEN [gs |-> gs, outcome |-> [kind |-> "no_such_target"]]
         ELSE IF ~gs.scene[i].hostile
         THEN [gs |-> gs, outcome |-> [kind |-> "not_hostile"]]
         ELSE LET damage == FloorDiv(StatGet(actor.stats, "strength"), 2) + d6
                  h == gs.scene[i].health - damage
              IN [gs |-> [gs EXCEPT !.scene =
                            [j \in 1..Len(gs.scene) |->
                                IF gs.scene[j].hostile
                                THEN [gs.scene[j] EXCEPT !.health = @ - damage]
                                ELSE gs.scene[j]]],
                  outcome |-> IF h <= 0
                              THEN [kind |-> "defeated", target |-> gs.scene[i].id]
                              ELSE [kind |-> "hit", target |-> gs.scene[i].id,
                                    damage |-> damage, health |-> h]]

\* handle_attack_intent
handle_attack_intent(intent, gs, actor, d6) ==
    IF intent.target = None
    THEN [gs |-> gs, outcome |-> [kind |-> "no_target"]]
    ELSE LET i == TargetPos(gs, intent.target) IN
         IF i = 0 THEN [gs |-> gs, outcome |-> [kind |-> "no_such_target"]]
         ELSE IF ~gs.scene[i].hostile
         THEN [gs |-> gs, outcome |-> [kind |-> "not_hostile"]]
         ELSE LET damage == FloorDiv(StatGet(actor.stats, "strength"), 2) + d6
                  h == gs.scene[i].health - damage
              IN [gs |-> [gs EXCEPT !.scene[i].health = h],
                  outcome |-> IF h <= 0
                              THEN [kind |-> "defeated", target |-> gs.scene[i].id]
                              ELSE [kind |-> "hit", target |-> gs.scene[i].id,
                                    damage |-> damage, health |-> h]]

INCOHERENT_ITEM_KEYWORDS == {"laser", "pistol", "spaceship", "computer", "phone", "gun"}

\* any(keyword in item_name.lower() ...): substring test, by table
Incoherent(lowered) == lowered \in INCOHERENT_ITEM_KEYWORDS \cup {"laser gun"}

HasItem(inv, lowered) == \E i \in 1..Len(inv) : Lower(inv[i]) = lowered

\* list.remove(first matching item)
RemoveFirst(inv, lowered) ==
    LET i == CHOOSE k \in 1..Len(inv) :
                /\ Lower(inv[k]) = lowered
                /\ \A j \in 1..(k - 1) : Lower(inv[j]) # lowered
    IN SubSeq(inv, 1, i - 1) \o SubSeq(inv, i + 1, Len(inv))

\* an inventory handler that would compare the names as they are written
handle_inventory_intent_exact(intent, gs, actor) ==
    IF intent.item = None THEN [gs |-> gs, outcome |-> [kind |-> "no_item"]]
    ELSE LET name == intent.item
             p == PlayerPos(gs, actor.id)
             has == \E i \in 1..Len(actor.inventory) : actor.inventory[i] = name
         IN IF intent.acq
            THEN IF Incoherent(Lower(name))
                 THEN [gs |-> gs, outcome |-> [kind |-> "incoherent_item"]]
                 ELSE IF ~has
                 THEN [gs |-> [gs EXCEPT !.players[p].inventory = Append(@, name)],
                       outcome |-> [kind |-> "acquired", item |-> name]]
                 ELSE [gs |-> gs, outcome |-> [kind |-> "already_has", item |-> name]]
            ELSE IF HasItem(actor.inventory, Lower(name))
                 THEN [gs |-> [gs EXCEPT !.players[p].inventory =
                                            RemoveFirst(@, Lower(name))],
                       outcome |-> [kind |-> "removed", item |-> name]]
                 ELSE [gs |-> gs, outcome |-> [kind |-> "not_owned", item |-> name]]

\* handle_inventory_intent: the actor's inventory is changed in place
handle_inventory_intent(intent, gs, actor) ==
    IF intent.item = None THEN [gs |-> gs, outcome |-> [kind |-> "no_item"]]
    ELSE LET name == Title(intent.item)
             p == PlayerPos(gs, actor.id)
         IN IF intent.acq
            THEN IF Incoherent(Lower(name))
                 THEN [gs |-> gs, outcome |-> [kind |-> "incoherent_item"]]
                 ELSE IF ~HasItem(actor.inventory, Lower(name))
                 THEN [gs |-> [gs EXCEPT !.players[p].inventory = Append(@, name)],
                       outcome |-> [kind |-> "acquired", item |-> name]]
                 ELSE [gs |-> gs, outcome |-> [kind |-> "already_has", item |-> name]]
            ELSE IF HasItem(actor.inventory, Lower(name))
                 THEN [gs |-> [gs EXCEPT !.players[p].inventory =
                                            RemoveFirst(@, Lower(name))],
                       outcome |-> [kind |-> "removed", item |-> name]]
                 ELSE [gs |-> gs, outcome |-> [kind |-> "not_owned", item |-> name]]

\* process_turn_events, step 1: does this ATTACK start combat?
StartsCombat(intent, gs) ==
    /\ intent.type = "ATTACK"
    /\ gs.game_phase # "IN_COMBAT"
    /\ intent.target # None
    /\ TargetPos(gs, intent.target) # 0
    /\ gs.scene[TargetPos(gs, intent.target)].hostile

\* process_turn_events, step 3: dispatch on the intent type
IntentHandler(intent, gs, actor, rnd) ==
    CASE intent.type = "MANAGE_INVENTORY" -> handle_inventory_intent(intent, gs, actor)
      [] intent.type = "SKILL_CHECK" -> handle_skill_check_intent(intent, gs, actor, rnd.d20)
      [] intent.type = "ATTACK" -> handle_attack_intent(intent, gs, actor, rnd.d6)
      [] OTHER -> [gs |-> gs, outcome |-> [kind |-> "interact"]]

\* process_turn_events, step 4: the combat-end check
CombatEndCheck(gs, actor) ==
    IF gs.game_phase = "IN_COMBAT" /\ ~RemainingHostiles(gs)
    THEN [gs EXCEPT !.game_phase = "GAME_IN_PROGRESS",
                    !.order = <<>>,
                    !.cur = actor.id]
    ELSE gs

\* a process_turn_events that would strike at once when the attack starts combat
process_turn_events_striking(intent, gs, actor, rnd) ==
    IF StartsCombat(intent, gs)
    THEN [gs |-> handle_attack_intent(intent, initiate_combat(gs, rnd.d20s), actor, rnd.d6).gs,
          outcome |-> [kind |-> "combat_begins"],
          combat_ended |-> FALSE,
          is_danger |-> FALSE]
    ELSE LET r == IntentHandler(intent, gs, actor, rnd)
             g == CombatEndCheck(r.gs, actor)
         IN [gs |-> g,
             outcome |-> r.outcome,
             combat_ended |-> (g # r.gs),
             is_danger |-> (rnd.d100 <= 5 /\ intent.type \notin {"OBSERVE", "SOCIAL"})]

\* process_turn_events. rnd: the random draws of the turn (d20s for the
\* initiative, d100 for the danger flag, d20 for a skill check, d6 for damage)
process_turn_events(intent, gs, actor, rnd) ==
    IF StartsCombat(intent, gs)
    THEN [gs |-> initiate_combat(gs, rnd.d20s),
          outcome |-> [kind |-> "combat_begins"],
          combat_ended |-> FALSE,
          is_danger |-> FALSE]
    ELSE LET r == IntentHandler(intent, gs, actor, rnd)
             g == CombatEndCheck(r.gs, actor)
         IN [gs |-> g,
             outcome |-> r.outcome,
             combat_ended |-> (g # r.gs),
             is_danger |-> (rnd.d100 <= 5 /\ intent.type \notin {"OBSERVE", "SOCIAL"})]

\* ------------------------------------------------------- phase handlers
\* A handler returns [status, gs, etype, outcome]:
\*   status "ok"     the handler returned (final_game_state, result_payload)
\*          "raise"  an exception left the task: nothing persisted or published
\*          "return" the task returned before the dispatcher's persist step
\* inp holds what the task obtains from outside: the narrator's answer
\* (fail, scene, narrative, worlds, classes), the classifier's intent, the
\* choice parsed from free text, and the random draws.

Handled(gs, etype, outcome) ==
    [status |-> "ok", gs |-> gs, etype |-> etype, outcome |-> outcome]

Raised(gs) ==
    [status |-> "raise", gs |-> gs, etype |-> None, outcome |-> [kind |-> "exception"]]

Returned(gs) ==
    [status |-> "return", gs |-> gs, etype |-> None, outcome |-> [kind |-> "returned"]]

\* _narrate_turn: the prompt reads world.name and acting_player.name, then the
\* narrator answers or fails; its scene replaces scene_context wholesale
_narrate_turn(gs, actorPos, outcome, inp) ==
    IF gs.world = None \/ actorPos = 0 \/ inp.fail # "none"
    THEN Raised(gs)
    ELSE Handled([gs EXCEPT !.scene = inp.scene, !.prev = inp.narrative],
                 "NARRATIVE_UPDATE", outcome)

\* _handle_start_new_game
_handle_start_new_game(gs, inp) ==
    IF inp.fail # "none" THEN Raised(gs)
    ELSE Handled([gs EXCEPT !.game_phase = "WORLD_SELECTION", !.wopts = inp.worlds],
                 "WORLD_OPTIONS_PRESENTED", [kind |-> "worlds"])

\* _handle_world_selection; inp.choice is _get_natural_language_choice's answer
_handle_world_selection(gs, inp) ==
    LET num_options == Len(gs.wopts)
        choice_index == inp.choice - 1
    IN IF 0 <= choice_index /\ choice_index < num_options
       THEN Handled([gs EXCEPT !.world = gs.wopts[choice_index + 1],
                               !.game_phase = "CHARACTER_CREATION_NUM_PLAYERS"],
                    "STATE_UPDATE_PROMPT_USER", [kind |-> "world_chosen"])
       ELSE Handled(gs, "ERROR", [kind |-> "invalid_choice"])

\* what action_text.rsplit(',', 3) and int(age_str) make of the details text
DetailTexts ==
    {"Kara, 29, female, a wandering scholar",
     "Kara",
     "Kara, old, female, a wandering scholar",
     "Kara, the bold, 29, female, scholar"}

Commas(text) ==
    CASE text = "Kara, 29, female, a wandering scholar" -> 3
      [] text = "Kara, old, female, a wandering scholar" -> 3
      [] text = "Kara, the bold, 29, female, scholar" -> 4
      [] OTHER -> 0

\* len(action_text.rsplit(',', 3))
RsplitParts(text) == IF Commas(text) >= 3 THEN 4 ELSE Commas(text) + 1

\* does int(age_str) succeed on the second of the four parts?
AgeIsInt(text) ==
    text \in {"Kara, 29, female, a wandering scholar",
              "Kara, the bold, 29, female, scholar"}

\* _handle_character_creation, sub-phase CHARACTER_CREATION_NUM_PLAYERS
CreationNumPlayers(gs, inp) ==
    IF ~(1 <= inp.choice /\ inp.choice <= 4)
    THEN Handled(gs, "ERROR", [kind |-> "invalid_choice"])
    ELSE IF gs.world = None \/ inp.fail # "none"
    THEN Raised(gs)
    ELSE Handled([gs EXCEPT !.ntc = inp.choice,
                            !.game_phase = "CHARACTER_CREATION_CLASSES",
                            !.copts = inp.classes],
                 "CLASS_OPTIONS_PRESENTED", [kind |-> "classes"])

\* _handle_character_creation, sub-phase CHARACTER_CREATION_CLASSES
CreationClasses(gs, inp) ==
    LET choice_index == inp.choice - 1 IN
    IF ~(0 <= choice_index /\ choice_index < gs.copts)
    THEN Handled(gs, "ERROR", [kind |-> "invalid_choice"])
    ELSE Handled([gs EXCEPT !.pcc = TRUE,
                            !.game_phase = "CHARACTER_CREATION_DETAILS"],
                 "STATE_UPDATE_PROMPT_USER", [kind |-> "class_chosen"])

\* a details step that would hand the first turn to the character just
\* created instead of the first one
CreationDetailsLastFirst(gs, text, inp) ==
    IF RsplitParts(text) # 4 \/ ~AgeIsInt(text)
    THEN Handled(gs, "ERROR", [kind |-> "invalid_format"])
    ELSE IF ~gs.pcc THEN Raised(gs)
    ELSE LET g1 == [gs EXCEPT
                      !.players = Append(@, NewPlayerCharacter(PlayerIds[Len(@) + 1])),
                      !.created = @ + 1,
                      !.pcc = FALSE]
         IN IF g1.created < g1.ntc
            THEN Handled([g1 EXCEPT !.game_phase = "CHARACTER_CREATION_CLASSES"],
                         "CLASS_OPTIONS_PRESENTED", [kind |-> "next_character"])
            ELSE LET g2 == [g1 EXCEPT !.game_phase = "GAME_IN_PROGRESS",
                                      !.cur = g1.players[Len(g1.players)].id]
                 IN IF g2.world = None THEN Raised(g2)
                    ELSE IF g2.world = "no_milestones" \/ inp.fail = "ValueError"
                    THEN Handled(g2, "ERROR", [kind |-> "invalid_format"])
                    ELSE IF inp.fail # "none" THEN Raised(g2)
                    ELSE Handled([g2 EXCEPT !.scene = inp.scene],
                                 "NARRATIVE_UPDATE", [kind |-> "opening_scene"])

\* _handle_character_creation, sub-phase CHARACTER_CREATION_DETAILS. The try
\* block catches ValueError and IndexError only, also those raised after the
\* character was stored.
CreationDetails(gs, text, inp) ==
    IF RsplitParts(text) # 4 \/ ~AgeIsInt(text)
    THEN Handled(gs, "ERROR", [kind |-> "invalid_format"])
    ELSE IF ~gs.pcc THEN Raised(gs)
    ELSE LET g1 == [gs EXCEPT
                      !.players = Append(@, NewPlayerCharacter(PlayerIds[Len(@) + 1])),
                      !.created = @ + 1,
                      !.pcc = FALSE]
         IN IF g1.created < g1.ntc
            THEN Handled([g1 EXCEPT !.game_phase = "CHARACTER_CREATION_CLASSES"],
                         "CLASS_OPTIONS_PRESENTED", [kind |-> "next_character"])
            ELSE LET g2 == [g1 EXCEPT !.game_phase = "GAME_IN_PROGRESS",
                                      !.cur = g1.players[1].id]
                 IN IF g2.world = None THEN Raised(g2)
                    ELSE IF g2.world = "no_milestones" \/ inp.fail = "ValueError"
                    THEN Handled(g2, "ERROR", [kind |-> "invalid_format"])
                    ELSE IF inp.fail # "none" THEN Raised(g2)
                    ELSE Handled([g2 EXCEPT !.scene = inp.scene],
                                 "NARRATIVE_UPDATE", [kind |-> "opening_scene"])

\* _handle_character_creation
_handle_character_creation(gs, text, inp) ==
    CASE gs.game_phase = "CHARACTER_CREATION_NUM_PLAYERS" -> CreationNumPlayers(gs, inp)
      [] gs.game_phase = "CHARACTER_CREATION_CLASSES" -> CreationClasses(gs, inp)
      [] gs.game_phase = "CHARACTER_CREATION_DETAILS" -> CreationDetails(gs, text, inp)
      [] OTHER -> Handled(gs, "ERROR", [kind |-> "unknown_creation_state"])

\* _classify_intent: a failed classifier call is caught and answered with
\* the default PlayerIntent(intent_type="OBSERVE", target=None)
_classify_intent(inp) ==
    IF inp.classifier = "fail"
    THEN [type |-> "OBSERVE", target |-> None, stat |-> None, dc |-> 0,
          item |-> None, acq |-> FALSE]
    ELSE inp.intent

\* _handle_standard_turn
_handle_standard_turn(gs, acting_char_id, inp) ==
    LET p == PlayerPos(gs, acting_char_id) IN
    IF p = 0 THEN Handled(gs, "ERROR", [kind |-> "acting_player_not_found"])
    ELSE LET r == process_turn_events(_classify_intent(inp), gs, gs.players[p], inp)
         IN IF r.gs.game_phase = "AWAITING_DICE_ROLL_CONFIRMATION"
            THEN Handled(r.gs, "DICE_ROLL_REQUESTED", r.outcome)
            ELSE _narrate_turn(r.gs, PlayerPos(r.gs, acting_char_id),
                               r.outcome, inp)

\* a phase 2 that would roll the d20 again instead of reading the stored one
RevealRerolled(pending, damage) ==
    [kind |-> "skill_result",
     dice_roll |-> 21 - pending.dice_roll,
     modifier |-> pending.modifier,
     total |-> 21 - pending.dice_roll + pending.modifier,
     dc |-> pending.dc,
     is_success |-> (21 - pending.dice_roll + pending.modifier >= pending.dc),
     damage |-> damage]

\* the outcome description phase 2 builds from the stored PendingAction
RevealOutcome(pending, damage) ==
    [kind |-> "skill_result",
     dice_roll |-> pending.dice_roll,
     modifier |-> pending.modifier,
     total |-> pending.dice_roll + pending.modifier,
     dc |-> pending.dc,
     is_success |-> pending.is_success,
     damage |-> damage]

\* a phase 2 that would stop the actor's health at 0
_handle_dice_roll_confirmation_clamped(gs, inp) ==
    IF gs.pending = <<>>
    THEN Handled(gs, "ERROR", [kind |-> "no_pending"])
    ELSE LET pending == gs.pending[1]
             p == PlayerPos(gs, pending.actor)
         IN IF ~pending.is_success /\ p = 0 THEN Raised(gs)
            ELSE LET damage == IF pending.is_success THEN 0 ELSE inp.d4
                     g1 == IF pending.is_success THEN gs
                           ELSE [gs EXCEPT !.players[p].health =
                                    IF @ - damage < 0 THEN 0 ELSE @ - damage]
                     g2 == [g1 EXCEPT !.pending = <<>>,
                                      !.game_phase = "GAME_IN_PROGRESS"]
                 IN _narrate_turn(g2, p, RevealOutcome(pending, damage), inp)

\* _handle_dice_roll_confirmation (phase 2); inp.d4 is the damage roll
_handle_dice_roll_confirmation(gs, inp) ==
    IF gs.pending = <<>>
    THEN Handled(gs, "ERROR", [kind |-> "no_pending"])
    ELSE LET pending == gs.pending[1]
             p == PlayerPos(gs, pending.actor)
         IN IF ~pending.is_success /\ p = 0 THEN Raised(gs)
            ELSE LET damage == IF pending.is_success THEN 0 ELSE inp.d4
                     g1 == IF pending.is_success THEN gs
                           ELSE [gs EXCEPT !.players[p].health = @ - damage]
                     g2 == [g1 EXCEPT !.pending = <<>>,
                                      !.game_phase = "GAME_IN_PROGRESS"]
                 IN _narrate_turn(g2, p, RevealOutcome(pending, damage), inp)

\* ------------------------------------------------------ turn scheduler

\* _advance_turn_in_combat
_advance_turn_in_combat(gs) ==
    LET i == IndexOf(gs.order, gs.cur) IN
    IF i = 0
    THEN IF gs.order = <<>>
         THEN [gs |-> gs, is_npc |-> FALSE]
         ELSE [gs |-> [gs EXCEPT !.cur = gs.order[1]],
               is_npc |-> gs.order[1] \notin PlayerKeys(gs)]
    ELSE LET next_id == gs.order[(i % Len(gs.order)) + 1]
         IN [gs |-> [gs EXCEPT !.cur = next_id],
             is_npc |-> next_id \notin PlayerKeys(gs)]

\* round-robin over players.keys() (process_game_action_task, step 5)
NextPlayer(gs, cid) ==
    gs.players[(PlayerPos(gs, cid) % Len(gs.players)) + 1].id

\* process_game_action_task, step 2: the dispatcher on the task's game_state
Dispatch(gs, text, inp) ==
    CASE gs.game_phase = "NEW_GAME" -> _handle_start_new_game(gs, inp)
      [] gs.game_phase = "WORLD_SELECTION" -> _handle_world_selection(gs, inp)
      [] gs.game_phase \in {"CHARACTER_CREATION_NUM_PLAYERS",
                            "CHARACTER_CREATION_CLASSES",
                            "CHARACTER_CREATION_DETAILS"} ->
            _handle_character_creation(gs, text, inp)
      [] gs.game_phase = "AWAITING_DICE_ROLL_CONFIRMATION" ->
            _handle_dice_roll_confirmation(gs, inp)
      [] gs.game_phase = "IN_COMBAT" ->
            IF gs.cur = None \/ gs.cur \notin PlayerKeys(gs)
            THEN Returned(gs)
            ELSE _handle_standard_turn(gs, gs.cur, inp)
      [] gs.game_phase = "GAME_IN_PROGRESS" ->
            IF gs.cur = None \/ gs.cur \notin PlayerKeys(gs)
            THEN IF gs.players = <<>>
                 THEN Returned(gs)
                 ELSE _handle_standard_turn([gs EXCEPT !.cur = gs.players[1].id],
                                            gs.players[1].id, inp)
            ELSE _handle_standard_turn(gs, gs.cur, inp)
      [] OTHER -> Handled(gs, "ERROR", [kind |-> "unhandled_state"])

\* process_game_action_task, step 5 (post-turn logic) on final_game_state:
\* the state it leaves in memory, whether it enqueues an NPC-turn task, and
\* whether it writes the state to the store a second time
PostTurn(initial_phase, fin) ==
    IF fin.game_phase = "IN_COMBAT"
    THEN LET adv == IF initial_phase = "IN_COMBAT"
                    THEN _advance_turn_in_combat(fin)
                    ELSE [gs |-> fin, is_npc |-> fin.cur \notin PlayerKeys(fin)]
         IN [gs |-> adv.gs, enqueue |-> adv.is_npc, write |-> adv.is_npc]
    ELSE IF fin.game_phase = "GAME_IN_PROGRESS"
    THEN IF Len(fin.players) > 1 /\ fin.cur \in PlayerKeys(fin)
         THEN [gs |-> [fin EXCEPT !.cur = NextPlayer(fin, fin.cur)],
               enqueue |-> FALSE, write |-> TRUE]
         ELSE [gs |-> fin, enqueue |-> FALSE, write |-> FALSE]
    ELSE [gs |-> fin, enqueue |-> FALSE, write |-> FALSE]

\* an NPC turn whose attack would land on the first player of the party
_handle_npc_turn_wounding(gs, npc_id, inp) ==
    IF gs.players = <<>> THEN gs
    ELSE [gs EXCEPT !.players[1].health = gs.players[1].health - 1]

\* _handle_npc_turn: PlayerCharacter(**npc_entity.model_dump()) lacks the
\* required fields age, gender, backstory and character_class, so it raises
\* inside the try block on every path that reaches it: the NPC never acts
\* and the state is returned as it was read, whether the tactical call to
\* the narrator (inp.fail) has failed before that or not
_handle_npc_turn(gs, npc_id, inp) == gs

\* process_npc_turn_task from the state read to the state it will write
NpcTurn(gs, inp) ==
    LET g == _handle_npc_turn(gs, gs.cur, inp) IN
    IF ~RemainingHostiles(g)
    THEN [gs |-> [g EXCEPT !.game_phase = "GAME_IN_PROGRESS"], enqueue |-> FALSE]
    ELSE LET adv == _advance_turn_in_combat(g)
         IN [gs |-> adv.gs, enqueue |-> adv.is_npc]

\* ------------------------------------------------------------- inputs

\* sampled faces of random.randint(1, 20), (1, 6), (1, 4) and (1, 100)
D20Sample == {1, 20}
D6Sample == {1, 6}
D4Sample == {1, 4}
D100Sample == {5, 6}

\* health the narrator gives a living entity in the model
EntityHealth == 8

\* scenes the narrator may answer with (updated_scene_context.entities)
Scenes ==
    {<<SceneEntity("e1", "Goblin", TRUE, EntityHealth)>>,
     <<SceneEntity("e1", "Goblin", TRUE, 0)>>,
     <<SceneEntity("e1", "Goblin", TRUE, EntityHealth),
       SceneEntity("e2", "Orc", TRUE, EntityHealth)>>}

\* world_options and the number of class_options the narrator may answer with
WorldLists == {<<"world", "no_milestones">>}
ClassCounts == {1}

ObserveIntent == PlayerIntent("OBSERVE", None, None, 0)

\* intents the classifier may answer with
Intents ==
    {ObserveIntent,
     PlayerIntent("ATTACK", "goblin", None, 0),
     PlayerIntent("SKILL_CHECK", None, "Dexterity", 0)}

NoInput ==
    [intent |-> ObserveIntent, d20s |-> <<>>, d20 |-> 1, d6 |-> 1, d4 |-> 1,
     d100 |-> 100, fail |-> "none", scene |-> <<>>, narrative |-> "told",
     worlds |-> <<>>, classes |-> 0, choice |-> 0, classifier |-> "ok"]

\* the narrator's answers to _narrate_turn: a scene, or a failure
NarrationsOf(base, scenes) ==
    {[base EXCEPT !.scene = sc] : sc \in scenes} \cup {[base EXCEPT !.fail = "Error"]}

Narrations(base) == NarrationsOf(base, Scenes)

\* the model attacks an entity only while its health is above -MaxOverkill
Attackable(gs, intent) ==
    \/ intent.type # "ATTACK"
    \/ intent.target = None
    \/ TargetPos(gs, intent.target) = 0
    \/ gs.scene[TargetPos(gs, intent.target)].health > 0 - MaxOverkill

\* sampled initiative rolls of n combatants: all roll alike, or one of them
\* rolls the 20 and the others the 1
InitiativeSample(n) ==
    {[i \in 1..n |-> 1]} \cup {[i \in 1..n |-> IF i = w THEN 20 ELSE 1] : w \in 1..n}

\* the draws and answers a standard turn with this intent may consume, the
\* narrator answering with one of scenes
TurnInputsOf(gs, intent, scenes) ==
    LET base == [NoInput EXCEPT !.intent = intent] IN
    IF StartsCombat(intent, gs)
    THEN UNION {NarrationsOf([base EXCEPT !.d20s = ds], scenes) :
                    ds \in InitiativeSample(Len(Combatants(gs)))}
    ELSE IF intent.type = "SKILL_CHECK"
    THEN {[base EXCEPT !.d20 = a, !.d100 = b] : a \in D20Sample, b \in D100Sample}
    ELSE IF intent.type = "ATTACK"
    THEN UNION {NarrationsOf([base EXCEPT !.d6 = a], scenes) : a \in D6Sample}
    ELSE NarrationsOf(base, scenes)

TurnInputs(gs, intent) == TurnInputsOf(gs, intent, Scenes)

\* the classifier call has failed
ClassifierFailed == [NoInput EXCEPT !.classifier = "fail"]

\* what an NPC-turn task may obtain from outside: the narrator's tactical
\* answer, or its failure
NpcInputs == {NoInput, [NoInput EXCEPT !.fail = "Error"]}

\* everything a player-action task on snapshot gs may obtain from outside
InputsFor(gs) ==
    CASE gs.game_phase = "NEW_GAME" ->
            {[NoInput EXCEPT !.worlds = w] : w \in WorldLists}
            \cup {[NoInput EXCEPT !.fail = "Error"]}
      [] gs.game_phase = "WORLD_SELECTION" ->
            {[NoInput EXCEPT !.choice = c] : c \in 0..Len(gs.wopts)}
      [] gs.game_phase = "CHARACTER_CREATION_NUM_PLAYERS" ->
            {[NoInput EXCEPT !.choice = c, !.classes = k] :
                c \in 0..(IF MaxParty < 4 THEN MaxParty ELSE 4), k \in ClassCounts}
            \cup {[NoInput EXCEPT !.choice = 1, !.fail = "Error"]}
      [] gs.game_phase = "CHARACTER_CREATION_CLASSES" ->
            {[NoInput EXCEPT !.choice = c] : c \in 0..gs.copts}
      [] gs.game_phase = "CHARACTER_CREATION_DETAILS" ->
            Narrations(NoInput) \cup {[NoInput EXCEPT !.fail = "ValueError"]}
      [] gs.game_phase = "AWAITING_DICE_ROLL_CONFIRMATION" ->
            UNION {Narrations([NoInput EXCEPT !.d4 = a]) : a \in D4Sample}
      [] OTHER ->
            UNION {TurnInputs(gs, i) : i \in {j \in Intents : Attackable(gs, j)}}
            \cup Narrations(ClassifierFailed)

\* action_type values a client sends, by the phase it last saw
TextsFor(gs) ==
    CASE gs.game_phase = "CHARACTER_CREATION_DETAILS" -> DetailTexts
      [] gs.game_phase = "AWAITING_DICE_ROLL_CONFIRMATION" ->
            {"CONFIRM_DICE_ROLL", "I look around"}
      [] OTHER -> {"I look around"}

\* ------------------------------------------------------------- system

VARIABLES
    db,         \* the session's persisted GameState (game_sessions.game_state_json)
    queue,      \* player-action task messages in the broker: [id, gs, text]
    npcq,       \* NPC-turn task messages in the broker (they carry no state)
    running,    \* worker slots: a task between its first and its last store access
    sent,       \* client messages received so far
    published,  \* the last result event pushed to gm_results
    reveals,    \* history: every phase-2 reveal, with the task and its PendingAction
    chain,      \* history: NPC-turn tasks enqueued since a player action was handled
    serial      \* history: so far every task began alone and on the latest state

vars == <<db, queue, npcq, running, sent, published, reveals, chain, serial>>

Slots == 1..MaxInFlight

Idle == [kind |-> "idle"]

\* one more NPC-turn task in the chain
Counted(n) == IF n < MaxChain THEN n + 1 ELSE n

\* slots holding a task between its start and its last store access
Busy == {k \in Slots : running[k] # Idle}

FreeSlot(k) == running[k] = Idle /\ \A j \in 1..(k - 1) : running[j] # Idle

NoEvent == [task |-> 0, etype |-> None, gs |-> InitialGameState, outcome |-> [kind |-> None]]

Init ==
    /\ db = InitialGameState
    /\ queue = {}
    /\ npcq = 0
    /\ running = [k \in Slots |-> Idle]
    /\ sent = 0
    /\ published = NoEvent
    /\ reveals = {}
    /\ chain = 0
    /\ serial = TRUE

\* websocket_endpoint, one pass of the message loop: the latest persisted
\* state is read and travels in the task message
ClientMessage(text) ==
    /\ sent < MaxMsgs
    /\ Cardinality(queue) < MaxQueue
    /\ text \in TextsFor(db)
    /\ queue' = queue \cup {[id |-> sent + 1, gs |-> db, text |-> text, payload |-> <<>>]}
    /\ sent' = sent + 1
    /\ UNCHANGED <<db, npcq, running, published, reveals, chain, serial>>

\* acting_char_id as the dispatcher resolves it on the task's game_state
\* (pending.acting_character_id in phase 2), None where no character acts
ActingId(gs) ==
    CASE gs.game_phase = "AWAITING_DICE_ROLL_CONFIRMATION" ->
            IF gs.pending = <<>> THEN None ELSE gs.pending[1].actor
      [] gs.game_phase = "IN_COMBAT" -> gs.cur
      [] gs.game_phase = "GAME_IN_PROGRESS" ->
            IF gs.cur # None /\ gs.cur \in PlayerKeys(gs) THEN gs.cur
            ELSE IF gs.players = <<>> THEN None ELSE gs.players[1].id
      [] OTHER -> None

\* the result event of task id as publish_result_to_queue sends it:
\* new_game_state is final_game_state.model_dump(), every field included
ResultEvent(id, r) ==
    [task |-> id, etype |-> r.etype, gs |-> r.gs, outcome |-> r.outcome]

\* a task between its first persist and its last one (step 5 still to run)
PostTurnSlot(t, r, post) ==
    [kind |-> "player", pc |-> IF post.enqueue THEN "enqueue" ELSE "write",
     gs |-> post.gs, task |-> t.id, initial_phase |-> t.gs.game_phase,
     actor |-> ActingId(t.gs), etype |-> r.etype]

\* a forced write that would store the payload with the session_id it came with
ForceStateForeignSession(t) ==
    IF t.payload = <<>>
    THEN UNCHANGED <<db, published>>
    ELSE /\ db' = t.payload[1]
         /\ published' = [task |-> t.id, etype |-> "STATE_FORCED", gs |-> t.payload[1],
                          outcome |-> [kind |-> "forced"]]

\* process_game_action_task, lines 496 to 511: FORCE_GAME_STATE overwrites the
\* stored state with the payload and returns; the dispatcher and step 5 do
\* not run
ForceState(t) ==
    IF t.payload = <<>>
    THEN UNCHANGED <<db, published>>
    ELSE \E final_game_state \in {[t.payload[1] EXCEPT !.session_id = SessionId]} :
         /\ db' = final_game_state
         /\ published' = [task |-> t.id, etype |-> "STATE_FORCED",
                          gs |-> final_game_state,
                          outcome |-> [kind |-> "forced"]]

\* process_game_action_task on message t, from its start to the first
\* persist and the publish (steps 1 to 4); step 5 follows in the slot
PlayerTask(t, inp, k) ==
    /\ t \in queue
    /\ FreeSlot(k)
    /\ queue' = queue \ {t}
    /\ IF t.text = "FORCE_GAME_STATE"
       THEN ForceState(t) /\ UNCHANGED <<running, reveals, chain>>
       ELSE \E r \in {Dispatch(t.gs, t.text, inp)} :
            IF r.status # "ok"
            THEN UNCHANGED <<db, running, published, reveals, chain>>
            ELSE \E post \in {PostTurn(t.gs.game_phase, r.gs)} :
                 /\ db' = r.gs
                 /\ chain' = 0
                 /\ published' = ResultEvent(t.id, r)
                 /\ reveals' = IF r.outcome.kind = "skill_result"
                               THEN reveals \cup {[task |-> t.id,
                                                   pending |-> t.gs.pending[1],
                                                   outcome |-> r.outcome]}
                               ELSE reveals
                 /\ running' = IF post.enqueue \/ post.write
                               THEN [running EXCEPT ![k] = PostTurnSlot(t, r, post)]
                               ELSE running
    /\ serial' = (serial /\ Busy = {} /\ npcq = 0
                      /\ (t.text = "FORCE_GAME_STATE" \/ t.gs = db))
    /\ UNCHANGED <<npcq, sent>>

\* process_game_action_task line 567: process_npc_turn_task.delay(...)
PlayerEnqueueNpc(k) ==
    /\ running[k].kind = "player"
    /\ running[k].pc = "enqueue"
    /\ npcq' = npcq + 1
    /\ chain' = Counted(chain)
    /\ running' = [running EXCEPT ![k].pc = "write"]
    /\ UNCHANGED <<db, queue, sent, published, reveals, serial>>

\* process_game_action_task lines 568 and 577: the second persist
PlayerPersistTurn(k) ==
    /\ running[k].kind = "player"
    /\ running[k].pc = "write"
    /\ db' = running[k].gs
    /\ running' = [running EXCEPT ![k] = Idle]
    /\ UNCHANGED <<queue, npcq, sent, published, reveals, chain, serial>>

\* process_npc_turn_task: the store is read, the turn is computed
NpcStart(k) ==
    /\ npcq > 0
    /\ FreeSlot(k)
    /\ npcq' = npcq - 1
    /\ \E inp \in NpcInputs : \E n \in {NpcTurn(db, inp)} :
       running' = [running EXCEPT ![k] =
                      [kind |-> "npc", pc |-> IF n.enqueue THEN "enqueue" ELSE "write",
                       gs |-> n.gs]]
    /\ serial' = (serial /\ Busy = {})
    /\ UNCHANGED <<db, queue, sent, published, reveals, chain>>

\* process_npc_turn_task line 478: the next NPC-turn task is enqueued
NpcEnqueueNext(k) ==
    /\ running[k].kind = "npc"
    /\ running[k].pc = "enqueue"
    /\ npcq' = npcq + 1
    /\ chain' = Counted(chain)
    /\ running' = [running EXCEPT ![k].pc = "write"]
    /\ UNCHANGED <<db, queue, sent, published, reveals, serial>>

\* process_npc_turn_task lines 479 to 481: persist and publish
NpcPersist(k) ==
    /\ running[k].kind = "npc"
    /\ running[k].pc = "write"
    /\ db' = running[k].gs
    /\ published' = ResultEvent(0, Handled(running[k].gs, "NARRATIVE_UPDATE",
                                            [kind |-> "npc_turn"]))
    /\ running' = [running EXCEPT ![k] = Idle]
    /\ UNCHANGED <<queue, npcq, sent, reveals, chain, serial>>

Next ==
    \/ \E text \in DetailTexts \cup {"CONFIRM_DICE_ROLL", "I look around"} :
            ClientMessage(text)
    \/ \E t \in queue : \E inp \in InputsFor(t.gs) : \E k \in Slots : PlayerTask(t, inp, k)
    \/ \E k \in Slots : PlayerEnqueueNpc(k)
    \/ \E k \in Slots : PlayerPersistTurn(k)
    \/ \E k \in Slots : NpcStart(k)
    \/ \E k \in Slots : NpcEnqueueNext(k)
    \/ \E k \in Slots : NpcPersist(k)

Spec == Init /\ [][Next]_vars

\* ----------------------------------------------- the session in play

\* client messages of a session that character creation has already used
PlayMsgs == 3

\* the persisted state once character creation for n players has ended with
\* opening scene sc: _handle_character_creation's last branch, then step 5 of
\* process_game_action_task (the round-robin advance for a party of two or more)
SetupResult(n, sc) ==
    [InitialGameState EXCEPT
        !.game_phase = "GAME_IN_PROGRESS",
        !.players = [i \in 1..n |-> NewPlayerCharacter(PlayerIds[i])],
        !.scene = sc,
        !.cur = IF n > 1 THEN PlayerIds[2] ELSE PlayerIds[1],
        !.wopts = <<"world">>,
        !.world = "world",
        !.copts = 1,
        !.ntc = n,
        !.created = n]

PlayInit ==
    /\ db \in {SetupResult(n, sc) : n \in 1..MaxParty, sc \in Scenes}
    /\ queue = {}
    /\ npcq = 0
    /\ running = [k \in Slots |-> Idle]
    /\ sent = MaxMsgs - PlayMsgs
    /\ published = NoEvent
    /\ reveals = {}
    /\ chain = 0
    /\ serial = TRUE

PlaySpec == PlayInit /\ [][Next]_vars

\* the same session under fair scheduling: the broker delivers every queued
\* task to a free worker and a started task runs to its end; the client is
\* free to send nothing more
FairMsgs == 2

FairInit ==
    /\ db \in {SetupResult(n, sc) : n \in 1..MaxParty, sc \in Scenes}
    /\ queue = {}
    /\ npcq = 0
    /\ running = [k \in Slots |-> Idle]
    /\ sent = MaxMsgs - FairMsgs
    /\ published = NoEvent
    /\ reveals = {}
    /\ chain = 0
    /\ serial = TRUE

Worker ==
    \/ \E t \in queue : \E inp \in InputsFor(t.gs) : \E k \in Slots : PlayerTask(t, inp, k)
    \/ \E k \in Slots : PlayerEnqueueNpc(k)
    \/ \E k \in Slots : PlayerPersistTurn(k)
    \/ \E k \in Slots : NpcStart(k)
    \/ \E k \in Slots : NpcEnqueueNext(k)
    \/ \E k \in Slots : NpcPersist(k)

FairSpec == FairInit /\ [][Next]_vars /\ WF_vars(Worker)

\* ------------------------------------- the rules engine on more intents

\* client messages left to a session that exercises the rules engine
RuleMsgs == 2

\* scenes with an entity that is not hostile
RuleScenes ==
    {<<SceneEntity("e1", "Goblin", TRUE, EntityHealth),
       SceneEntity("e3", "Merchant", FALSE, EntityHealth)>>,
     <<SceneEntity("e3", "Merchant", FALSE, EntityHealth)>>}

\* intents the classifier may answer with, attacks without a valid target
\* and inventory actions among them
RuleIntents ==
    Intents \cup {PlayerIntent("ATTACK", None, None, 0),
                  PlayerIntent("ATTACK", "ghost", None, 0),
                  PlayerIntent("ATTACK", "merchant", None, 0)}
            \cup {InventoryIntent(i, TRUE) : i \in {"sword", "SWORD", "Rope", "rope"}}
            \cup {InventoryIntent("sword", FALSE)}

\* what a player-action task on snapshot gs may obtain from outside
RuleInputsFor(gs) ==
    IF gs.game_phase \in {"GAME_IN_PROGRESS", "IN_COMBAT"}
    THEN UNION {TurnInputsOf(gs, i, RuleScenes) :
                    i \in {j \in RuleIntents : Attackable(gs, j)}}
         \cup NarrationsOf(ClassifierFailed, RuleScenes)
    ELSE InputsFor(gs)

RuleInit ==
    /\ db \in {SetupResult(1, sc) : sc \in RuleScenes}
    /\ queue = {}
    /\ npcq = 0
    /\ running = [k \in Slots |-> Idle]
    /\ sent = MaxMsgs - RuleMsgs
    /\ published = NoEvent
    /\ reveals = {}
    /\ chain = 0
    /\ serial = TRUE

RuleNext ==
    \/ \E text \in {"CONFIRM_DICE_ROLL", "I look around"} : ClientMessage(text)
    \/ \E t \in queue : \E inp \in RuleInputsFor(t.gs) : \E k \in Slots :
            PlayerTask(t, inp, k)
    \/ \E k \in Slots : PlayerEnqueueNpc(k)
    \/ \E k \in Slots : PlayerPersistTurn(k)
    \/ \E k \in Slots : NpcStart(k)
    \/ \E k \in Slots : NpcEnqueueNext(k)
    \/ \E k \in Slots : NpcPersist(k)

RuleSpec == RuleInit /\ [][RuleNext]_vars

\* --------------------------------------- the session with the test hatch

\* client messages left to a session whose client also uses FORCE_GAME_STATE
ForceMsgs == 3

\* a single player facing a living Goblin, character creation done
ForceBase == SetupResult(1, <<SceneEntity("e1", "Goblin", TRUE, EntityHealth)>>)

\* payloads of FORCE_GAME_STATE: a combat whose initiative_order holds no
\* player id, a game_phase no branch of the dispatcher handles, and a state
\* dumped from another session
ForcedStates ==
    {[ForceBase EXCEPT !.game_phase = "IN_COMBAT", !.order = <<"e1">>],
     [ForceBase EXCEPT !.game_phase = "AWAITING_DICE_ROLL"],
     [ForceBase EXCEPT !.session_id = "s2"]}

\* websocket_endpoint on {"action_type": "FORCE_GAME_STATE", "payload": f}
ClientForce(f) ==
    /\ sent < MaxMsgs
    /\ Cardinality(queue) < MaxQueue
    /\ queue' = queue \cup {[id |-> sent + 1, gs |-> db, text |-> "FORCE_GAME_STATE",
                              payload |-> <<f>>]}
    /\ sent' = sent + 1
    /\ UNCHANGED <<db, npcq, running, published, reveals, chain, serial>>

ForceInit ==
    /\ db = ForceBase
    /\ queue = {}
    /\ npcq = 0
    /\ running = [k \in Slots |-> Idle]
    /\ sent = MaxMsgs - ForceMsgs
    /\ published = NoEvent
    /\ reveals = {}
    /\ chain = 0
    /\ serial = TRUE

ForceNext ==
    \/ \E f \in ForcedStates : ClientForce(f)
    \/ Next

ForceSpec == ForceInit /\ [][ForceNext]_vars

\* ------------------------------ skill checks of unlike characters

\* client messages left to a session that exercises the skill check
CheckMsgs == 2

\* dexterity values range over StatBase - StatSpread .. StatBase + StatSpread
StatSpread == 3

StatValues == (StatBase - StatSpread)..(StatBase + StatSpread)

\* a health one failed check can take below 0
LowHealth == 2

\* PlayerCharacter.conditions: lists of Effect.modifiers, one naming the stat
\* and "all" in the same effect, one naming them in two effects
CheckConditions ==
    {<<[dexterity |-> 2, all |-> -1]>>,
     <<[all |-> 1], [strength |-> -3]>>}

\* the first character of the party: any dexterity, or effects, or low health
CheckCharacters ==
    {[NewPlayerCharacter(PlayerIds[1]) EXCEPT !.stats.dexterity = v] : v \in StatValues}
    \cup {[NewPlayerCharacter(PlayerIds[1]) EXCEPT !.conditions = c] : c \in CheckConditions}
    \cup {[NewPlayerCharacter(PlayerIds[1]) EXCEPT !.health = LowHealth]}

CheckScenes ==
    {<<SceneEntity("e1", "Goblin", TRUE, EntityHealth),
       SceneEntity("e2", "Orc", TRUE, EntityHealth)>>}

\* skill checks on a stat the actor has, on one it lacks and on none, with
\* and without a required_dc
CheckIntents ==
    {ObserveIntent, PlayerIntent("ATTACK", "goblin", None, 0)}
    \cup {PlayerIntent("SKILL_CHECK", None, st, dc) :
             st \in {None, "Dexterity", "Strength", "Wisdom"}, dc \in {0, 15}}

\* what a player-action task on snapshot gs may obtain from outside
CheckInputsFor(gs) ==
    IF gs.game_phase \in {"GAME_IN_PROGRESS", "IN_COMBAT"}
    THEN UNION {TurnInputsOf(gs, i, CheckScenes) :
                    i \in {j \in CheckIntents : Attackable(gs, j)}}
    ELSE InputsFor(gs)

\* the session in play, the first character holding the turn
CheckInit ==
    /\ db \in {[SetupResult(n, sc) EXCEPT !.players[1] = c, !.cur = c.id] :
                  n \in 1..MaxParty, sc \in CheckScenes, c \in CheckCharacters}
    /\ queue = {}
    /\ npcq = 0
    /\ running = [k \in Slots |-> Idle]
    /\ sent = MaxMsgs - CheckMsgs
    /\ published = NoEvent
    /\ reveals = {}
    /\ chain = 0
    /\ serial = TRUE

CheckNext ==
    \/ \E text \in {"CONFIRM_DICE_ROLL", "I look around"} : ClientMessage(text)
    \/ \E t \in queue : \E inp \in CheckInputsFor(t.gs) : \E k \in Slots :
            PlayerTask(t, inp, k)
    \/ \E k \in Slots : PlayerEnqueueNpc(k)
    \/ \E k \in Slots : PlayerPersistTurn(k)
    \/ \E k \in Slots : NpcStart(k)
    \/ \E k \in Slots : NpcEnqueueNext(k)
    \/ \E k \in Slots : NpcPersist(k)

CheckSpec == CheckInit /\ [][CheckNext]_vars

\* --------------------------------------------- rewards and level-up

\* applications of rewards in one behaviour
RewardRuns == 2

\* levels the rewarded character starts from
MaxLevel == 2

\* QuestRewards: below, at and above one and two thresholds
RewardSample ==
    [xp : {0, 400, 1000, 3000}, currency : {0, 5}, items : {<<>>, <<"Gem">>}]

\* a character at some level, short of its threshold by nothing, a little
\* or everything, in full health or hurt
RewardCharacters ==
    {[NewPlayerCharacter(PlayerIds[1]) EXCEPT
         !.level = l, !.xp = x, !.health = h,
         !.max_health = DefaultHealth + (l - 1) * LevelHealth] :
       l \in 1..MaxLevel, x \in {0, 600, 999}, h \in {DefaultHealth, LowHealth}}

RewardInit ==
    /\ db \in {[SetupResult(1, <<>>) EXCEPT !.players[1] = c] : c \in RewardCharacters}
    /\ queue = {}
    /\ npcq = 0
    /\ running = [k \in Slots |-> Idle]
    /\ sent = MaxMsgs - RewardRuns
    /\ published = NoEvent
    /\ reveals = {}
    /\ chain = 0
    /\ serial = TRUE

\* one application of _apply_rewards to the character
ApplyRewards(rewards) ==
    /\ sent < MaxMsgs
    /\ sent' = sent + 1
    /\ db' = [db EXCEPT !.players[1] = _apply_rewards(@, rewards)]
    /\ UNCHANGED <<queue, npcq, running, published, reveals, chain, serial>>

RewardNext == \E rewards \in RewardSample : ApplyRewards(rewards)

RewardSpec == RewardInit /\ [][RewardNext]_vars

\* ------------------------------------ the broker delivering twice

\* client messages left to a session whose broker may deliver again
RedeliverMsgs == 2

RedeliverInit ==
    /\ db \in {SetupResult(n, sc) : n \in 1..MaxParty, sc \in Scenes}
    /\ queue = {}
    /\ npcq = 0
    /\ running = [k \in Slots |-> Idle]
    /\ sent = MaxMsgs - RedeliverMsgs
    /\ published = NoEvent
    /\ reveals = {}
    /\ chain = 0
    /\ serial = TRUE

\* the broker delivers an NPC-turn task again once its first delivery has
\* completed: an NPC-turn task was enqueued since the last player action
\* and none is queued or running; the message is process_npc_turn_task's
\* (session_id, client_id), as before
NpcRedelivery ==
    /\ chain > 0
    /\ npcq = 0
    /\ Busy = {}
    /\ npcq' = npcq + 1
    /\ UNCHANGED <<db, queue, running, sent, published, reveals, chain, serial>>

RedeliverNext ==
    \/ NpcRedelivery
    \/ Next

RedeliverSpec == RedeliverInit /\ [][RedeliverNext]_vars

\* ------------------------------------- entities that share a name

\* client messages left to a session whose scenes hold two Goblins
TwinMsgs == 2

\* two entities of one name: both hostile and alive, the first one defeated,
\* the first one not hostile
TwinScenes ==
    {<<SceneEntity("e1", "Goblin", TRUE, EntityHealth),
       SceneEntity("e2", "Goblin", TRUE, EntityHealth)>>,
     <<SceneEntity("e1", "Goblin", TRUE, 0),
       SceneEntity("e2", "Goblin", TRUE, EntityHealth)>>,
     <<SceneEntity("e1", "Goblin", FALSE, EntityHealth),
       SceneEntity("e2", "Goblin", TRUE, EntityHealth)>>}

\* intents the classifier may answer with, the target in either case
TwinIntents ==
    {ObserveIntent,
     PlayerIntent("ATTACK", "goblin", None, 0),
     PlayerIntent("ATTACK", "GOBLIN", None, 0)}

\* what a player-action task on snapshot gs may obtain from outside
TwinInputsFor(gs) ==
    IF gs.game_phase \in {"GAME_IN_PROGRESS", "IN_COMBAT"}
    THEN UNION {TurnInputsOf(gs, i, TwinScenes) :
                    i \in {j \in TwinIntents : Attackable(gs, j)}}
    ELSE InputsFor(gs)

TwinInit ==
    /\ db \in {SetupResult(n, sc) : n \in 1..MaxParty, sc \in TwinScenes}
    /\ queue = {}
    /\ npcq = 0
    /\ running = [k \in Slots |-> Idle]
    /\ sent = MaxMsgs - TwinMsgs
    /\ published = NoEvent
    /\ reveals = {}
    /\ chain = 0
    /\ serial = TRUE

TwinNext ==
    \/ ClientMessage("I look around")
    \/ \E t \in queue : \E inp \in TwinInputsFor(t.gs) : \E k \in Slots :
            PlayerTask(t, inp, k)
    \/ \E k \in Slots : PlayerEnqueueNpc(k)
    \/ \E k \in Slots : PlayerPersistTurn(k)
    \/ \E k \in Slots : NpcStart(k)
    \/ \E k \in Slots : NpcEnqueueNext(k)
    \/ \E k \in Slots : NpcPersist(k)

TwinSpec == TwinInit /\ [][TwinNext]_vars

\* ------------------------------------------------------------- claims

Awaiting == "AWAITING_DICE_ROLL_CONFIRMATION"

\* the step is PlayerTask on the queued message t
Started(t) == t \in queue /\ t \notin queue'

\* ... and the dispatcher's persist and publish were reached in it
Processed(t) == Started(t) /\ published'.task = t.id

NpcActive == npcq > 0 \/ \E k \in Slots : running[k].kind = "npc"

\* C1: in every persisted state pending_action is present if and only if
\* game_phase = AWAITING_DICE_ROLL_CONFIRMATION
C1_PendingIffAwaiting ==
    (db.pending # <<>>) <=> (db.game_phase = Awaiting)

\* C2: the state a player-action task persists is what the dispatcher makes
\* of the state persisted when the task starts (for some answer of the
\* narrator, the classifier and the dice), whatever snapshot the message holds
C2_HandlerInputIsPersisted ==
    [][\A t \in queue :
          Processed(t) =>
             \E inp \in InputsFor(db) :
                /\ Dispatch(db, t.text, inp).status = "ok"
                /\ Dispatch(db, t.text, inp).gs = db']_vars

\* C3: a task whose snapshot names another current_turn_entity_id or another
\* game_phase than the persisted state leaves the persisted state as it is
C3_StaleActionRejected ==
    [][\A t \in queue :
          (Started(t) /\ (t.gs.cur # db.cur \/ t.gs.game_phase # db.game_phase))
             => db' = db]_vars

\* C4: at most one task of the session is between its start and its last
\* write to the store
C4_AtMostOneInFlight == Cardinality(Busy) <= 1

\* C5: every phase-2 resolution reports the dice_roll, modifier, dc and
\* is_success stored in the PendingAction it resolves, so two resolutions of
\* the same PendingAction report the same roll and the same success
C5_OutcomeFixedAtCreation ==
    /\ \A r \in reveals :
          /\ r.outcome.dice_roll = r.pending.dice_roll
          /\ r.outcome.modifier = r.pending.modifier
          /\ r.outcome.dc = r.pending.dc
          /\ r.outcome.is_success = r.pending.is_success
    /\ \A r1, r2 \in reveals :
          r1.pending = r2.pending =>
             /\ r1.outcome.dice_roll = r2.outcome.dice_roll
             /\ r1.outcome.is_success = r2.outcome.is_success

\* two tasks have resolved the same PendingAction
C5_ResolvedTwice ==
    \E r1, r2 \in reveals : r1.task # r2.task /\ r1.pending = r2.pending

\* C6: whatever DICE_ROLL_REQUESTED event a queued task can produce, it
\* produces the same event when only the d20 of the skill check differs
C6_RequestHidesRoll ==
    \A t \in queue : \A inp \in InputsFor(t.gs) : \A d \in D20Sample :
        LET r1 == Dispatch(t.gs, t.text, inp)
            r2 == Dispatch(t.gs, t.text, [inp EXCEPT !.d20 = d])
        IN (r1.status = "ok" /\ r1.etype = "DICE_ROLL_REQUESTED")
              => ResultEvent(t.id, r2) = ResultEvent(t.id, r1)

\* C7: a task that runs on the latest persisted state while the session
\* awaits the confirmation, with an action_type other than
\* CONFIRM_DICE_ROLL, leaves pending_action, game_phase and every
\* player's health as they are
C7_OnlyConfirmAccepted ==
    [][\A t \in queue :
          (Started(t) /\ t.gs = db /\ db.game_phase = Awaiting
              /\ t.text # "CONFIRM_DICE_ROLL")
             => /\ db'.pending = db.pending
                /\ db'.game_phase = db.game_phase
                /\ \A i \in 1..Len(db.players) :
                      db'.players[i].health = db.players[i].health]_vars

\* the id after id in initiative_order, wrapping
Following(order, id) == order[(IndexOf(order, id) % Len(order)) + 1]

\* C8: when a player-action task handled in IN_COMBAT makes its last write
\* and the session is still IN_COMBAT, the persisted current_turn_entity_id
\* is the id after the acting player in initiative_order; the task that
\* ends without a second write is taken alone and on the latest state
C8_CombatTurnAdvanced ==
    [][/\ \A t \in queue :
             (Processed(t) /\ t.gs = db /\ Busy = {} /\ npcq = 0
                 /\ running' = running
                 /\ t.gs.game_phase = "IN_COMBAT" /\ db'.game_phase = "IN_COMBAT")
                => db'.cur = Following(db'.order, t.gs.cur)
       /\ \A k \in Slots :
             (running[k].kind = "player" /\ running'[k] = Idle
                 /\ running[k].initial_phase = "IN_COMBAT"
                 /\ db'.game_phase = "IN_COMBAT")
                => db'.cur = Following(db'.order, running[k].actor)]_vars

\* C9: when a narrated player-action task makes its last write and leaves
\* a party of two or more in GAME_IN_PROGRESS, the persisted
\* current_turn_entity_id is the player after the acting one in insertion
\* order; and only a narrated task advances the turn
C9_RoundRobinAfterNarration ==
    [][/\ \A t \in queue :
             (Processed(t) /\ running' = running
                 /\ published'.etype = "NARRATIVE_UPDATE"
                 /\ db'.game_phase = "GAME_IN_PROGRESS" /\ Len(db'.players) >= 2)
                => db'.cur = NextPlayer(db', ActingId(t.gs))
       /\ \A k \in Slots :
             (running[k].kind = "player" /\ running'[k] = Idle
                 /\ db'.game_phase = "GAME_IN_PROGRESS" /\ Len(db'.players) >= 2)
                => /\ running[k].etype = "NARRATIVE_UPDATE"
                   /\ db'.cur = NextPlayer(db', running[k].actor)]_vars

\* the NPC chain has stopped and the scheduler waits for a player, or the
\* session has left combat
Settled ==
    /\ ~NpcActive
    /\ (db.cur \in PlayerKeys(db) \/ db.game_phase # "IN_COMBAT")

\* C10: under fair scheduling, whenever an NPC-turn task is queued or
\* running, a state follows in which none is and either a player holds the
\* turn or the session is no longer IN_COMBAT
C10_NpcChainStops == NpcActive ~> Settled

\* C11: with every task begun alone and on the latest state, while the
\* session is IN_COMBAT the NPC-turn tasks enqueued since the
\* last handled player action are at most as many as initiative_order has
\* combatants
C11_NpcChainCapped ==
    (serial /\ db.game_phase = "IN_COMBAT") => chain <= Len(db.order)

\* C12: with every task begun alone and on the latest state, a persisted
\* state whose phase is GAME_IN_PROGRESS has an empty initiative_order
C12_OrderOnlyInCombat ==
    (serial /\ db.game_phase = "GAME_IN_PROGRESS") => db.order = <<>>

\* id names a player or a scene entity of gs whose health is above 0
Living(gs, id) ==
    \/ \E i \in 1..Len(gs.players) : gs.players[i].id = id /\ gs.players[i].health > 0
    \/ \E i \in 1..Len(gs.scene) : gs.scene[i].id = id /\ gs.scene[i].health > 0

\* C13: with every task begun alone and on the latest state, in a persisted
\* state whose phase is GAME_IN_PROGRESS or IN_COMBAT current_turn_entity_id
\* names a living player or a living scene entity
C13_CurrentTurnLiving ==
    (serial /\ db.game_phase \in {"GAME_IN_PROGRESS", "IN_COMBAT"})
        => Living(db, db.cur)

\* combat has ended in gs: back in GAME_IN_PROGRESS, initiative_order cleared
CombatOver(gs) == gs.game_phase = "GAME_IN_PROGRESS" /\ gs.order = <<>>

\* gs is what a step from an IN_COMBAT state may leave: combat over exactly
\* when no hostile entity is alive, still IN_COMBAT otherwise
EndsExactly(gs) ==
    /\ CombatOver(gs) <=> ~RemainingHostiles(gs)
    /\ RemainingHostiles(gs) => gs.game_phase = "IN_COMBAT"

\* what process_turn_events may return for the player holding the turn in db
TurnEventsFrom(gs) ==
    {process_turn_events(inp.intent, gs, gs.players[PlayerPos(gs, gs.cur)], inp).gs :
        inp \in InputsFor(gs)}

\* C14: from a persisted IN_COMBAT state, every result of process_turn_events
\* for the player holding the turn and the result of an NPC-turn task have
\* combat over (GAME_IN_PROGRESS, initiative_order empty) exactly when no
\* hostile entity is alive, and are still IN_COMBAT otherwise
C14_CombatEndsExactly ==
    db.game_phase = "IN_COMBAT" =>
        /\ db.cur \in PlayerKeys(db) => \A g \in TurnEventsFrom(db) : EndsExactly(g)
        /\ \A inp \in NpcInputs : EndsExactly(NpcTurn(db, inp).gs)

\* the health of every player and of every scene entity, in list order
Healths(gs) ==
    <<[i \in 1..Len(gs.players) |-> gs.players[i].health],
      [i \in 1..Len(gs.scene) |-> gs.scene[i].health]>>

\* intent is an ATTACK whose target is the name of a hostile entity of gs
AttacksHostile(intent, gs) ==
    /\ intent.type = "ATTACK"
    /\ intent.target # None
    /\ \E i \in 1..Len(gs.scene) :
          /\ Lower(gs.scene[i].name) = Lower(intent.target)
          /\ gs.scene[i].hostile
          /\ \A j \in 1..(i - 1) : Lower(gs.scene[j].name) # Lower(intent.target)

\* C15: for every queued task whose snapshot is not IN_COMBAT and whose intent
\* is an ATTACK on a hostile entity, process_turn_events returns phase
\* IN_COMBAT, a non-empty initiative_order, the fixed combat-begins outcome
\* and is_danger = false, and leaves every health as it was
C15_AttackStartsCombat ==
    \A t \in queue : \A inp \in InputsFor(t.gs) :
        (/\ t.gs.game_phase = "GAME_IN_PROGRESS"
         /\ ActingId(t.gs) \in PlayerKeys(t.gs)
         /\ AttacksHostile(inp.intent, t.gs))
        => LET actor == t.gs.players[PlayerPos(t.gs, ActingId(t.gs))]
               r == process_turn_events(inp.intent, t.gs, actor, inp)
           IN /\ r.gs.game_phase = "IN_COMBAT"
              /\ r.gs.order # <<>>
              /\ r.outcome = [kind |-> "combat_begins"]
              /\ r.is_danger = FALSE
              /\ Healths(r.gs) = Healths(t.gs)

\* a task whose attack started combat has been handled
C15_CombatBegun ==
    /\ published.outcome.kind = "combat_begins"
    /\ published.gs.game_phase = "IN_COMBAT"
    /\ published.gs.order # <<>>

\* the combatant ids in the order the claim gives: players in insertion
\* order, then the hostile entities in list order, whatever their health
CombatantIds(gs) ==
    [i \in 1..Len(gs.players) |-> gs.players[i].id]
    \o LET hs == SelectSeq(gs.scene, LAMBDA e : e.hostile)
       IN [i \in 1..Len(hs) |-> hs[i].id]

\* ord is ids sorted by roll descending, equal rolls in their original order
StableDescending(ord, ids, roll) ==
    /\ Len(ord) = Len(ids)
    /\ \A i \in 1..Len(ids) : \E p \in 1..Len(ord) :
          ord[p] = ids[i] /\ \A q \in 1..Len(ord) : ord[q] = ids[i] => q = p
    /\ \A i, j \in 1..Len(ids) :
          (i < j) =>
             IF roll[i] >= roll[j]
             THEN IndexOf(ord, ids[i]) < IndexOf(ord, ids[j])
             ELSE IndexOf(ord, ids[j]) < IndexOf(ord, ids[i])

\* C16: whatever combat a queued task may start, initiative_order is the
\* combatant list (players, then hostile entities, each once) sorted by roll
\* descending with equal rolls in their original order, the first entry holds
\* the turn and the phase is IN_COMBAT; and [A:15, B:20, C:15] gives [B, A, C]
C16_InitiativeStableSort ==
    /\ \A t \in queue : \A ds \in InitiativeSample(Len(Combatants(t.gs))) :
          (t.gs.game_phase = "GAME_IN_PROGRESS" /\ Combatants(t.gs) # <<>>)
          => LET g == initiate_combat(t.gs, ds)
                 ids == CombatantIds(t.gs)
                 roll == [i \in 1..Len(ids) |->
                            ds[i] + StatModifier(Combatants(t.gs)[i].dex)]
             IN /\ StableDescending(g.order, ids, roll)
                /\ g.cur = g.order[1]
                /\ g.game_phase = "IN_COMBAT"
    /\ LET sorted == SortDesc(<<[id |-> "A", roll |-> 15], [id |-> "B", roll |-> 20],
                               [id |-> "C", roll |-> 15]>>)
       IN [i \in 1..3 |-> sorted[i].id] = <<"B", "A", "C">>

\* combat has begun with the third combatant first and the two it beat, who
\* rolled alike, behind it in their original order
C16_TieKeptOrder ==
    /\ published.outcome.kind = "combat_begins"
    /\ Len(published.gs.players) = 2
    /\ published.gs.order = <<"e1", "p1", "p2">>
    /\ published.gs.cur = "e1"

\* intent is an ATTACK that names no target, a name no scene entity of gs
\* bears, or an entity that is not hostile
AttackRefused(intent, gs) ==
    /\ intent.type = "ATTACK"
    /\ \/ intent.target = None
       \/ \A i \in 1..Len(gs.scene) : Lower(gs.scene[i].name) # Lower(intent.target)
       \/ ~gs.scene[TargetPos(gs, intent.target)].hostile

RejectionKinds == {"no_target", "no_such_target", "not_hostile"}

\* C17: for every queued task whose intent is an ATTACK with no target, an
\* unknown target or a target that is not hostile, handle_attack_intent and
\* process_turn_events leave every health as it was and answer with a
\* rejection, and process_turn_events does not start combat
C17_RefusedAttackHarmless ==
    \A t \in queue : \A inp \in RuleInputsFor(t.gs) :
        (/\ t.gs.game_phase \in {"GAME_IN_PROGRESS", "IN_COMBAT"}
         /\ ActingId(t.gs) \in PlayerKeys(t.gs)
         /\ AttackRefused(inp.intent, t.gs))
        => LET actor == t.gs.players[PlayerPos(t.gs, ActingId(t.gs))]
               h == handle_attack_intent(inp.intent, t.gs, actor, inp.d6)
               r == process_turn_events(inp.intent, t.gs, actor, inp)
           IN /\ Healths(h.gs) = Healths(t.gs)
              /\ h.outcome.kind \in RejectionKinds
              /\ Healths(r.gs) = Healths(t.gs)
              /\ r.outcome.kind \in RejectionKinds
              /\ t.gs.game_phase # "IN_COMBAT"
                    => r.gs.game_phase = t.gs.game_phase /\ r.gs.order = t.gs.order

\* an attack on the merchant, who is not hostile, has been handled outside combat
C17_MerchantSpared ==
    /\ published.outcome.kind = "not_hostile"
    /\ published.gs.game_phase = "GAME_IN_PROGRESS"
    /\ published.gs.order = <<>>

\* C18: for every queued task of a player in combat whose intent is an
\* ATTACK on a hostile entity, handle_attack_intent lowers that entity's
\* health by floor(strength / 2) + d6 with d6 in 1..6 and changes nothing
\* else: the other healths, the scene's entities and initiative_order stay
C18_AttackHitsTargetOnly ==
    \A t \in queue : \A inp \in InputsFor(t.gs) :
        (/\ t.gs.game_phase = "IN_COMBAT"
         /\ ActingId(t.gs) \in PlayerKeys(t.gs)
         /\ AttacksHostile(inp.intent, t.gs))
        => LET actor == t.gs.players[PlayerPos(t.gs, ActingId(t.gs))]
               h == handle_attack_intent(inp.intent, t.gs, actor, inp.d6).gs
               i == TargetPos(t.gs, inp.intent.target)
               strength == IF "strength" \in DOMAIN actor.stats
                           THEN actor.stats.strength ELSE DefaultStat
           IN /\ inp.d6 \in 1..6
              /\ h.scene[i].health
                    = t.gs.scene[i].health - (FloorDiv(strength, 2) + inp.d6)
              /\ Len(h.scene) = Len(t.gs.scene)
              /\ \A j \in 1..Len(h.scene) :
                    /\ h.scene[j].id = t.gs.scene[j].id
                    /\ j # i => h.scene[j] = t.gs.scene[j]
              /\ h.players = t.gs.players
              /\ h.order = t.gs.order
              /\ h.game_phase = t.gs.game_phase
              /\ h.cur = t.gs.cur

\* the Goblin has been defeated in a combat that goes on against the Orc,
\* and it is still in initiative_order
C18_DefeatedStillListed ==
    /\ published.outcome = [kind |-> "defeated", target |-> "e1"]
    /\ published.gs.game_phase = "IN_COMBAT"
    /\ \E i \in 1..Len(published.gs.order) : published.gs.order[i] = "e1"

\* the eight phases the dispatcher has a branch for
Phases ==
    {"NEW_GAME", "WORLD_SELECTION", "CHARACTER_CREATION_NUM_PLAYERS",
     "CHARACTER_CREATION_CLASSES", "CHARACTER_CREATION_DETAILS",
     "AWAITING_DICE_ROLL_CONFIRMATION", "IN_COMBAT", "GAME_IN_PROGRESS"}

\* C19: a player-action task whose snapshot carries a game_phase outside the
\* eight phases publishes an ERROR event and leaves the persisted state as
\* it is, whatever the snapshot holds
C19_UnknownPhaseNoWrite ==
    [][\A t \in queue :
          (Started(t) /\ t.text # "FORCE_GAME_STATE" /\ t.gs.game_phase \notin Phases)
             => /\ published'.task = t.id
                /\ published'.etype = "ERROR"
                /\ db' = db]_vars

\* the phases of world selection and character creation
SetupPhases ==
    {"WORLD_SELECTION", "CHARACTER_CREATION_NUM_PLAYERS",
     "CHARACTER_CREATION_CLASSES", "CHARACTER_CREATION_DETAILS"}

\* C20: when a task handled in a setup phase publishes an ERROR event, the
\* state it persists with that event equals the state its handler was given
C20_SetupErrorNoMutation ==
    [][\A t \in queue :
          (Processed(t) /\ t.gs.game_phase \in SetupPhases
              /\ published'.etype = "ERROR")
             => db' = t.gs]_vars

\* the number of comma-separated fields of the details text
Fields(text) == Commas(text) + 1

\* C21: a task handled in CHARACTER_CREATION_DETAILS whose text does not
\* consist of exactly four comma-separated fields publishes the ERROR event
\* and persists no new character
C21_FourFieldsOnly ==
    [][\A t \in queue :
          (Processed(t) /\ t.gs.game_phase = "CHARACTER_CREATION_DETAILS"
              /\ Fields(t.text) # 4)
             => /\ published'.etype = "ERROR"
                /\ db'.players = t.gs.players]_vars

\* C22: a player-action task begun alone and on the latest state, in IN_COMBAT
\* or GAME_IN_PROGRESS with a current_turn_entity_id that is no key of
\* players, publishes an ERROR event and leaves the persisted state as it is
C22_MissingActorReported ==
    [][\A t \in queue :
          (Started(t) /\ serial' /\ t.text # "FORCE_GAME_STATE"
              /\ t.gs.game_phase \in {"IN_COMBAT", "GAME_IN_PROGRESS"}
              /\ t.gs.cur \notin PlayerKeys(t.gs))
             => /\ published'.task = t.id
                /\ published'.etype = "ERROR"
                /\ db' = db]_vars

\* C23: whatever a queued player-action task or NPC-turn task may obtain, if
\* its narrator call or its classifier call fails the task writes nothing to
\* the store or writes the state it was given
C23_ServiceFailureNoWrite ==
    /\ \A t \in queue : \A inp \in InputsFor(t.gs) :
          (t.text # "FORCE_GAME_STATE"
              /\ (inp.fail # "none" \/ inp.classifier = "fail"))
            => LET r == Dispatch(t.gs, t.text, inp)
               IN r.status # "ok" \/ r.gs = t.gs
    /\ npcq > 0 =>
          \A inp \in NpcInputs : inp.fail # "none" => NpcTurn(db, inp).gs = db

\* the phase changes of the setup handlers
SetupEdges ==
    {<<"NEW_GAME", "WORLD_SELECTION">>,
     <<"WORLD_SELECTION", "CHARACTER_CREATION_NUM_PLAYERS">>,
     <<"CHARACTER_CREATION_NUM_PLAYERS", "CHARACTER_CREATION_CLASSES">>,
     <<"CHARACTER_CREATION_CLASSES", "CHARACTER_CREATION_DETAILS">>,
     <<"CHARACTER_CREATION_DETAILS", "CHARACTER_CREATION_CLASSES">>,
     <<"CHARACTER_CREATION_DETAILS", "GAME_IN_PROGRESS">>}

\* C24: a player-action task that starts while the persisted game_phase is
\* NEW_GAME or a setup phase leaves the persisted game_phase as it is or
\* moves it along one of the setup edges
C24_SetupEdgesOnly ==
    [][\A t \in queue :
          (Started(t) /\ db.game_phase \in SetupPhases \cup {"NEW_GAME"})
             => \/ db'.game_phase = db.game_phase
                \/ <<db.game_phase, db'.game_phase>> \in SetupEdges]_vars

C26_ForceOverwritesWholesale ==
    [][\A t \in queue :
          (Started(t) /\ t.text = "FORCE_GAME_STATE" /\ t.payload # <<>>)
             => /\ db' = [t.payload[1] EXCEPT !.session_id = SessionId]
                /\ published'.task = t.id
                /\ published'.etype = "STATE_FORCED"
                /\ published'.gs = db'
                /\ UNCHANGED <<npcq, running, reveals, chain>>]_vars

\* a combat without any player in its initiative_order has been forced and
\* nothing was scheduled for it
C26_CombatForced ==
    /\ published.etype = "STATE_FORCED"
    /\ db = [ForceBase EXCEPT !.game_phase = "IN_COMBAT", !.order = <<"e1">>]
    /\ db.session_id = SessionId
    /\ npcq = 0 /\ Busy = {}

\* C27: a task whose turn pauses on a skill check publishes
\* DICE_ROLL_REQUESTED and persists the state it was given with the
\* PendingAction and the awaiting phase: scene_context,
\* previous_turn_narrative and current_turn_entity_id are those of its
\* snapshot, no step 5 is left to run and no NPC-turn task is enqueued
C27_PauseWithoutNarration ==
    [][\A t \in queue :
          (Processed(t) /\ published'.etype = "DICE_ROLL_REQUESTED")
             => /\ db'.game_phase = Awaiting
                /\ db'.pending # <<>>
                /\ db'.scene = t.gs.scene
                /\ db'.prev = t.gs.prev
                /\ db'.cur = t.gs.cur
                /\ running' = running
                /\ npcq' = npcq]_vars

\* players after a resolution of PendingAction pa with damage roll d: as
\* before on success; on failure the actor's health is lower by d, whatever
\* its sign, and nothing else differs
ActorOnlyHurt(before, after, pa, d) ==
    LET p == IndexOf([i \in 1..Len(before) |-> before[i].id], pa.actor) IN
    IF pa.is_success
    THEN after = before
    ELSE /\ d \in 1..4
         /\ p # 0
         /\ after = [before EXCEPT ![p].health = before[p].health - d]

\* the result of the task's phase 2 clears pending_action and returns to
\* GAME_IN_PROGRESS
ResolutionClears(r) ==
    /\ r.etype = "NARRATIVE_UPDATE"
    /\ r.gs.pending = <<>>
    /\ r.gs.game_phase = "GAME_IN_PROGRESS"

\* C28 (as stated): whatever a queued phase-2 task obtains, when it returns
\* a result the players are as before on success, the pending actor alone is
\* hurt by d in 1..4 without clamping on failure, no entity of the scene has
\* changed, pending_action is cleared and the phase is GAME_IN_PROGRESS
C28_ResolutionChangesActorOnly ==
    \A t \in queue : \A inp \in InputsFor(t.gs) :
        (t.gs.game_phase = Awaiting /\ t.gs.pending # <<>>)
        => LET r == Dispatch(t.gs, t.text, inp)
           IN r.status = "ok"
                => /\ ActorOnlyHurt(t.gs.players, r.gs.players, t.gs.pending[1], inp.d4)
                   /\ r.gs.scene = t.gs.scene
                   /\ ResolutionClears(r)

\* C28 (amended): the same for the players, pending_action and the phase;
\* the scene is the one the narrator answered with in the same handler
C28_ResolutionHurtsActorOnly ==
    \A t \in queue : \A inp \in InputsFor(t.gs) :
        (t.gs.game_phase = Awaiting /\ t.gs.pending # <<>>)
        => LET r == Dispatch(t.gs, t.text, inp)
           IN r.status = "ok"
                => /\ ActorOnlyHurt(t.gs.players, r.gs.players, t.gs.pending[1], inp.d4)
                   /\ r.gs.scene = inp.scene
                   /\ ResolutionClears(r)

\* a failed check has taken the actor's health below 0, the other player's
\* is as it was
C28_FailedBelowZero ==
    /\ published.etype = "NARRATIVE_UPDATE"
    /\ published.outcome.kind = "skill_result"
    /\ ~published.outcome.is_success
    /\ Len(db.players) = 2
    /\ db.players[1].health < 0
    /\ db.players[2].health = DefaultHealth
    /\ db.pending = <<>>
    /\ db.game_phase = "GAME_IN_PROGRESS"

\* the sum over the effects of the modifier keyed by key
RECURSIVE ModifierSum(_, _)
ModifierSum(conditions, key) ==
    IF conditions = <<>> THEN 0
    ELSE (IF key \in DOMAIN conditions[1] THEN conditions[1][key] ELSE 0)
         + ModifierSum(Tail(conditions), key)

\* floor(x / 2): the integer m with 2m <= x < 2m + 2
FloorHalf(x) == CHOOSE m \in (0 - StatBase)..StatBase : 2 * m <= x /\ x < 2 * m + 2

\* the task is a player's standard turn and the classifier answers with a
\* SKILL_CHECK
ChecksSkill(t, inp) ==
    /\ t.gs.game_phase \in {"GAME_IN_PROGRESS", "IN_COMBAT"}
    /\ ActingId(t.gs) \in PlayerKeys(t.gs)
    /\ inp.classifier = "ok"
    /\ inp.intent.type = "SKILL_CHECK"

\* C29: whatever skill check a queued task may begin, the PendingAction it
\* stores holds a dice_roll in 1..20, the stat of the intent if the actor has
\* it and dexterity otherwise, the intent's DC or 12, as modifier the stat
\* modifier plus the effects' modifiers keyed by that stat plus those keyed
\* "all", and is_success = (dice_roll + modifier >= dc); the phase is
\* AWAITING_DICE_ROLL_CONFIRMATION
C29_PendingActionComputed ==
    \A t \in queue : \A inp \in CheckInputsFor(t.gs) :
        ChecksSkill(t, inp)
        => LET actor == t.gs.players[PlayerPos(t.gs, ActingId(t.gs))]
               r == Dispatch(t.gs, t.text, inp)
               stat == IF inp.intent.stat # None
                          /\ Lower(inp.intent.stat) \in DOMAIN actor.stats
                       THEN Lower(inp.intent.stat) ELSE "dexterity"
               dc == IF inp.intent.dc # 0 THEN inp.intent.dc ELSE 12
               stat_modifier == FloorHalf(actor.stats[stat] - 10)
               effect_modifier == ModifierSum(actor.conditions, stat)
                                  + ModifierSum(actor.conditions, "all")
           IN /\ r.status = "ok"
              /\ r.gs.game_phase = Awaiting
              /\ Len(r.gs.pending) = 1
              /\ LET pa == r.gs.pending[1]
                 IN /\ pa.actor = actor.id
                    /\ pa.dice_roll = inp.d20
                    /\ pa.dice_roll \in 1..20
                    /\ pa.stat_name = stat
                    /\ pa.dc = dc
                    /\ pa.modifier = stat_modifier + effect_modifier
                    /\ pa.is_success
                         <=> (pa.dice_roll + stat_modifier + effect_modifier >= dc)

\* a check awaits confirmation whose actor bears one effect that names both
\* the stat (+2) and "all" (-1): the stored modifier is +1
C29_BothModifiersApplied ==
    /\ db.game_phase = Awaiting
    /\ db.pending # <<>>
    /\ db.pending[1].actor = db.players[1].id
    /\ db.players[1].conditions = <<[dexterity |-> 2, all |-> -1]>>
    /\ db.pending[1].stat_name = "dexterity"
    /\ db.pending[1].modifier = 1

\* C30: the stat modifier is floor((v - 10) / 2) for every stat value, negative
\* below 10 (9 and 8 give -1, 7 gives -2); it is the modifier a queued task
\* stores for a skill check of an actor without effects, and the dexterity
\* modifier by which a combat it starts orders the combatants
C30_ModifierIsFloor ==
    /\ \A v \in StatValues :
          /\ StatModifier(v) = FloorHalf(v - 10)
          /\ v < 10 => StatModifier(v) < 0
    /\ StatModifier(9) = -1 /\ StatModifier(8) = -1 /\ StatModifier(7) = -2
    /\ \A t \in queue : \A inp \in CheckInputsFor(t.gs) :
          /\ (ChecksSkill(t, inp)
                 /\ t.gs.players[PlayerPos(t.gs, ActingId(t.gs))].conditions = <<>>)
               => LET actor == t.gs.players[PlayerPos(t.gs, ActingId(t.gs))]
                      pa == Dispatch(t.gs, t.text, inp).gs.pending[1]
                  IN pa.modifier = FloorHalf(actor.stats[pa.stat_name] - 10)
          /\ (t.gs.game_phase = "GAME_IN_PROGRESS" /\ StartsCombat(inp.intent, t.gs))
               => LET ids == CombatantIds(t.gs)
                      roll == [i \in 1..Len(ids) |->
                                 inp.d20s[i] + FloorHalf(Combatants(t.gs)[i].dex - 10)]
                  IN StableDescending(initiate_combat(t.gs, inp.d20s).order, ids, roll)

\* a check of a character of dexterity 7 awaits confirmation with modifier -2
C30_SevenGivesMinusTwo ==
    /\ db.game_phase = Awaiting
    /\ db.pending # <<>>
    /\ db.pending[1].actor = db.players[1].id
    /\ db.players[1].stats.dexterity = 7
    /\ db.players[1].conditions = <<>>
    /\ db.pending[1].stat_name = "dexterity"
    /\ db.pending[1].modifier = -2

\* the entries of inv whose name is name, ignoring case
Named(inv, name) == {i \in 1..Len(inv) : Lower(inv[i]) = Lower(name)}

\* C31: for every queued task whose intent acquires an item, if the actor's
\* inventory holds an entry of that name, ignoring case, handle_inventory_intent
\* leaves the state as it is; if it holds none, exactly one entry of that
\* name is added; and no persisted inventory holds a name twice
C31_AcquisitionIdempotent ==
    /\ \A t \in queue : \A inp \in RuleInputsFor(t.gs) :
          (/\ t.gs.game_phase \in {"GAME_IN_PROGRESS", "IN_COMBAT"}
           /\ ActingId(t.gs) \in PlayerKeys(t.gs)
           /\ inp.intent.type = "MANAGE_INVENTORY"
           /\ inp.intent.acq
           /\ inp.intent.item # None)
          => LET p == PlayerPos(t.gs, ActingId(t.gs))
                 actor == t.gs.players[p]
                 h == handle_inventory_intent(inp.intent, t.gs, actor).gs
             IN IF Named(actor.inventory, inp.intent.item) # {}
                THEN h = t.gs
                ELSE /\ Len(h.players[p].inventory) = Len(actor.inventory) + 1
                     /\ Cardinality(Named(h.players[p].inventory, inp.intent.item)) = 1
    /\ \A p \in 1..Len(db.players) : \A i, j \in 1..Len(db.players[p].inventory) :
          Lower(db.players[p].inventory[i]) = Lower(db.players[p].inventory[j]) => i = j

\* "Rope" has been acquired and a second acquisition of "rope" answered
\* with the inventory as it was
C31_SecondRopeRefused ==
    /\ published.outcome.kind = "already_has"
    /\ published.outcome.item = "Rope"
    /\ db.players[1].inventory = <<"Sword", "Rope">>

\* C32: whatever rewards are applied to the character, xp, currency and
\* items are added; if the xp then reaches level * 1000 the level rises by
\* one, the xp falls by the old level * 1000, max_health rises by 10 and
\* health is the new max_health; otherwise level, max_health and health stay;
\* the level never rises by more than one
C32_OneLevelPerReward ==
    \A rewards \in RewardSample :
        LET p == db.players[1]
            a == _apply_rewards(p, rewards)
            x == p.xp + rewards.xp
        IN /\ a.currency = p.currency + rewards.currency
           /\ a.inventory = p.inventory \o rewards.items
           /\ a.level \in {p.level, p.level + 1}
           /\ IF x >= p.level * 1000
              THEN /\ a.level = p.level + 1
                   /\ a.xp = x - p.level * 1000
                   /\ a.max_health = p.max_health + 10
                   /\ a.health = a.max_health
              ELSE /\ a.level = p.level
                   /\ a.xp = x
                   /\ a.max_health = p.max_health
                   /\ a.health = p.health

\* one application has raised a character of level 1 to level 2 and left it
\* with xp that meet the threshold of level 2
C32_SecondLevelWithheld ==
    /\ sent = MaxMsgs - RewardRuns + 1
    /\ db.players[1].level = 2
    /\ db.players[1].xp >= 2 * 1000
    /\ db.players[1].max_health = DefaultHealth + 10
    /\ db.players[1].health = db.players[1].max_health

\* C33: when every task so far ran alone and on the latest state, an
\* NPC-turn task that is delivered while the persisted turn of a combat is a
\* player's leaves current_turn_entity_id to that player
C33_RedeliveryKeepsTurn ==
    (/\ serial
     /\ npcq > 0
     /\ Busy = {}
     /\ db.game_phase = "IN_COMBAT"
     /\ db.cur \in PlayerKeys(db))
    => \A inp \in NpcInputs : NpcTurn(db, inp).gs.cur = db.cur

\* C34: whenever an NPC-turn task is taken from the broker and reads the
\* store, every task before it having run alone and on the latest state, the
\* persisted session is in combat and current_turn_entity_id names no player
C34_NpcTaskReadsNpcTurn ==
    [][(npcq' = npcq - 1 /\ serial)
          => /\ db.game_phase = "IN_COMBAT"
             /\ db.cur \notin PlayerKeys(db)]_vars

\* C35: the snapshot the endpoint puts into a new player-action task, every
\* task so far having run alone and on the latest state, is never a state
\* that a running player-action task has yet to replace by its final write
C35_SnapshotNeverIntermediate ==
    [][\A t \in queue' :
          (t \notin queue /\ serial)
             => \A k \in Slots :
                   running[k].kind = "player" => running[k].gs = t.gs]_vars

\* C36: when a player-action task that ran alone and on the latest state
\* makes its last write, the state it writes is the new_game_state of the
\* result event it has published
C36_PublishedIsPersisted ==
    [][\A k \in Slots :
          (/\ running[k].kind = "player"
           /\ running'[k] = Idle
           /\ serial
           /\ published.task = running[k].task)
             => published.gs = db']_vars

\* C37: whenever the persisted phase is AWAITING_DICE_ROLL_CONFIRMATION the
\* pending action's acting_character_id is a key of players and equals
\* current_turn_entity_id, and current_turn_entity_id does not change while
\* the phase stays AWAITING_DICE_ROLL_CONFIRMATION
C37_AwaitingActorHoldsTurn ==
    [][/\ (db'.game_phase = Awaiting /\ db'.pending # <<>>)
            => /\ db'.pending[1].actor \in PlayerKeys(db')
               /\ db'.pending[1].actor = db'.cur
       /\ (db.game_phase = Awaiting /\ db'.game_phase = Awaiting)
            => db'.cur = db.cur]_vars

\* C38: once the persisted phase has left the setup phases (it does so by
\* becoming GAME_IN_PROGRESS), no step of a player-action or NPC-turn task
\* persists NEW_GAME or a setup phase again
C38_NoReturnToSetup ==
    [][db.game_phase \notin SetupPhases \cup {"NEW_GAME"}
          => db'.game_phase \notin SetupPhases \cup {"NEW_GAME"}]_vars

\* the health of every player of gs, by character id
PlayerHealths(gs) ==
    [i \in 1..Len(gs.players) |-> <<gs.players[i].id, gs.players[i].health>>]

\* C39: whatever a queued task of a session in play obtains, the result of
\* its handler has every player's health as in the state it was given unless
\* it resolved a failed pending action, and step 5 (turn advancement) leaves
\* the healths as the handler returned them; an NPC turn on the persisted
\* state leaves every player's health as it is
C39_OnlyFailedCheckHurts ==
    /\ \A t \in queue : \A inp \in RuleInputsFor(t.gs) :
          LET r == Dispatch(t.gs, t.text, inp) IN
          (r.status = "ok"
              /\ t.gs.game_phase \in {"GAME_IN_PROGRESS", "IN_COMBAT", Awaiting})
             => /\ PlayerHealths(r.gs) # PlayerHealths(t.gs)
                      => /\ t.gs.game_phase = Awaiting
                         /\ t.gs.pending # <<>>
                         /\ ~t.gs.pending[1].is_success
                /\ PlayerHealths(PostTurn(t.gs.game_phase, r.gs).gs) = PlayerHealths(r.gs)
    /\ npcq > 0 => \A inp \in NpcInputs : PlayerHealths(NpcTurn(db, inp).gs) = PlayerHealths(db)

\* a player's attack has hit a hostile entity in combat and an NPC turn is
\* about to follow: every player is as healthy as at the start
C39_UnhurtInCombat ==
    /\ published.etype = "NARRATIVE_UPDATE"
    /\ published.outcome.kind = "hit"
    /\ db.game_phase = "IN_COMBAT"
    /\ npcq > 0
    /\ published.outcome.health \in 1..(EntityHealth - 1)
    /\ \A i \in 1..Len(db.players) : db.players[i].health = DefaultHealth

\* entities of gs that an attack on target is meant for: of that name
\* (case-insensitively), hostile and alive
LivingHostileNamed(gs, target) ==
    {i \in 1..Len(gs.scene) :
        /\ Lower(gs.scene[i].name) = Lower(target)
        /\ gs.scene[i].hostile
        /\ gs.scene[i].health > 0}

\* C40: for every queued in-combat snapshot whose turn is a player's, an
\* ATTACK intent naming (case-insensitively) a hostile entity with health
\* above 0 lowers the health of a living hostile entity of that name
C40_LivingHostileCanBeHit ==
    \A t \in queue : \A intent \in TwinIntents : \A d6 \in D6Sample :
        (/\ t.gs.game_phase = "IN_COMBAT"
         /\ t.gs.cur \in PlayerKeys(t.gs)
         /\ intent.type = "ATTACK"
         /\ LivingHostileNamed(t.gs, intent.target) # {})
        => LET actor == t.gs.players[PlayerPos(t.gs, t.gs.cur)]
               r == handle_attack_intent(intent, t.gs, actor, d6)
           IN \E i \in LivingHostileNamed(t.gs, intent.target) :
                 r.gs.scene[i].health < t.gs.scene[i].health


====
